---- MODULE Spec2Model ----
(***************************************************************************)
(* A model of four parts of ciao:                                          *)
(*                                                                         *)
(*  - the controller's launch path (ciao-controller/instance.go):          *)
(*    newInstance, Allowed, Add and Clean, run by concurrent launch        *)
(*    requests against the tenants' quotas, and the network identity,      *)
(*    storage and records they keep in the datastore;                      *)
(*  - the SSNTP test client's result correlation (testutil client):        *)
(*    the four waiter tables, Add*Chan, Get*ChanResult,                     *)
(*    SendResultAndDel*Chan, closeClientChans and the handlers that        *)
(*    resolve waiters;                                                     *)
(*  - the test client as an agent: handleStart, handleStop, handleRestart, *)
(*    handleDelete, SendStatsCmd and SendTrace;                            *)
(*  - the compute API: createServer, deleteServer, serverAction and        *)
(*    tenantServersAction.                                                 *)
(***************************************************************************)
EXTENDS Integers, Sequences, FiniteSets, TLC

(***************************************************************************)
(* Bounds of the model and program constants.                              *)
(***************************************************************************)
\* the largest limit a limited resource gets
MaxLimit == 2
\* the number of launch requests in one behaviour
MaxLaunch == 3
\* the number of Add*Chan calls and handlers of the client in one behaviour
MaxOps == 3
\* the number of frames the agent receives and reports it sends in one behaviour
MaxCmds == 3
\* the number of requests the compute API answers in one behaviour
MaxRequests == 2
\* the number of links the kernel creates in one behaviour
MaxIndex == 2
\* the number of items in the list a pager pages through
MaxItems == 3
\* the number of tenants with a CNCI
MaxCNCIs == 2

\* limitToString: a limit of -1 is "Unlimited"
Unlimited == -1
\* Allowed: the resource type of the instance count
InstanceCountType == 1

None == "none"

Tenants == {"t1", "t2"}
Flows == {"f1", "f2"}

\* payloads.Resource types a workload's defaults request
NetworkNode == "network_node"

\* workload templates: Defaults is a list of requested resources
Workloads ==
    { <<>>,
      << [Type |-> "vcpus", Value |-> 1] >>,
      << [Type |-> "vcpus", Value |-> 2] >>,
      << [Type |-> "vcpus", Value |-> 2], [Type |-> "vcpus", Value |-> 1] >>,
      << [Type |-> "mem_mb", Value |-> 2], [Type |-> "vcpus", Value |-> 1] >>,
      << [Type |-> "vcpus", Value |-> 1], [Type |-> NetworkNode, Value |-> 1] >> }

Limits == {Unlimited} \cup (1..MaxLimit)

VARIABLES
    tenants,    \* datastore: tenant id -> tenant.Resources (a list)
    flow,       \* launch request -> its position and its instance
    launches,   \* number of launch requests started
    admitted,   \* history: tenant id -> number of non-CNCI instances added
    raced,      \* history: an Allowed ran before an admitted usage was recorded
    config,     \* launch request -> the network identity and storage of its instance
    ipPool,     \* datastore: tenant id -> the hosts of the addresses allocated
    store,      \* datastore: the instance records AddInstance stored
    cncis,      \* datastore: the concentrators AddTenantCNCI registered
    blockDevices, \* block devices created, and block devices recorded
    lastOp,     \* history: the last operation of the launch path and its outcome
    chanTables, \* client: kind -> (key -> channel): CmdChans, EventChans, ...
    locks,      \* client: kind -> holder of CmdChansLock, EventChansLock, ...
    closed,     \* the channels that were closed
    nextChan,   \* the next channel make(chan Result) returns
    waiter,     \* caller of Add*Chan / Get*ChanResult -> its position
    sender,     \* flow running a handler of the client -> its position
    instances,  \* client.instances: the agent's list of InstanceStat
    picked,     \* history: channel -> times a SendResultAndDel*Chan took it
    ops,        \* number of Add*Chan calls and handlers started
    resolved,   \* history: the (kind, key) resolved since their last Add*Chan
    orphaned,   \* history: channels whose table entry an Add*Chan replaced
    missed,     \* history: the resolved (kind, key) resolved again, with no entry
    leftBlocked, \* history: waiters left blocked when a disconnect handler returned
    inbox,      \* agent: the command frame received and not yet handled
    traces,     \* agent: client.traces, the traced frames kept for the report
    tracesLock, \* agent: the holder of client.tracesLock
    instancesLock, \* agent: the holder of client.instancesLock
    reported,   \* history: the instances the statistics reports have named
    startedOK,  \* history: the instances whose Start the agent ran
    failedStarts, \* history: the instances whose Start the agent failed
    lastCmd,    \* history: the last command the agent handled and its outcome
    cmds,       \* number of frames received and reports sent by the agent
    servers,    \* API: the instances the datastore knows
    outbox,     \* API: the commands sent to the agent and not yet received
    created,    \* API: the number of instances created so far
    lastRequest, \* history: the last request of the compute API
    called,     \* history: the instance actions the last request called
    response,   \* history: the answer to the last request
    requests,   \* number of requests answered by the compute API
    vnic,       \* libsnnet: the Vnic handles
    links,      \* libsnnet: the kernel's network links
    nextIndex,  \* libsnnet: the index the kernel gives the next link
    bound,      \* history: the handles a create or getDevice succeeded on
    lastCall,   \* history: the last call on a Vnic and its outcome
    cfg,        \* launcher: the instance's vmConfig (Volumes) and its saved copy
    lastDetach, \* history: the last processDetachVolume call and its result
    pagers,     \* compute API: the list the pagers page through
    lastPage,   \* history: the last nextPage call and its result
    cnciSummary, \* datastore: the CNCIs of the tenants
    lastList    \* history: the last CNCI request and its response

quotaVars == <<tenants, flow, launches, admitted, raced>>

dsVars == <<config, ipPool, store, cncis, blockDevices, lastOp>>

chanVars == <<chanTables, locks, closed, nextChan, waiter, sender, instances,
              picked, ops, resolved, orphaned, missed, leftBlocked>>

\* the waiter tables without the agent's instance list
tableVars == <<chanTables, locks, closed, nextChan, waiter, sender,
               picked, ops, resolved, orphaned, missed, leftBlocked>>

agentVars == <<inbox, traces, tracesLock, instancesLock, reported, startedOK,
               failedStarts, lastCmd, cmds>>

\* what the waiter tables, the launch path and the agent's handlers leave alone
apiVars == <<servers, outbox, created, lastRequest, called, response,
             requests>>

\* what the waiter tables, the launch path, the agent's handlers and the
\* compute API leave alone
vnicVars == <<vnic, links, nextIndex, bound, lastCall>>

\* the variables of the libraries and tools beside the controller and the
\* test client
detachVars == <<cfg, lastDetach>>
pagerVars == <<pagers, lastPage>>
cnciVars == <<cnciSummary, lastList>>
libVars == <<vnicVars, detachVars, pagerVars, cnciVars>>

besidesClient == <<quotaVars, dsVars, agentVars, apiVars, libVars>>
besidesLaunch == <<chanVars, agentVars, apiVars, libVars>>
besidesAgent == <<quotaVars, dsVars, tableVars, apiVars, libVars>>
besidesAPI == <<quotaVars, dsVars, chanVars, agentVars, libVars>>

\* the controller and the test client
controllerVars == <<quotaVars, dsVars, chanVars, agentVars, apiVars>>
besidesVnic == <<controllerVars, detachVars, pagerVars, cnciVars>>
besidesDetach == <<controllerVars, vnicVars, pagerVars, cnciVars>>
besidesPager == <<controllerVars, vnicVars, detachVars, cnciVars>>
besidesCNCI == <<controllerVars, vnicVars, detachVars, pagerVars>>

vars == <<tenants, flow, launches, admitted, raced,
          config, ipPool, store, cncis, blockDevices, lastOp,
          chanTables, locks, closed, nextChan, waiter, sender, instances,
          picked, ops, resolved, orphaned, missed, leftBlocked,
          inbox, traces, tracesLock, instancesLock, reported, startedOK,
          failedStarts, lastCmd, cmds,
          servers, outbox, created, lastRequest, called, response, requests,
          vnic, links, nextIndex, bound, lastCall, cfg, lastDetach,
          pagers, lastPage, cnciSummary, lastList>>

(***************************************************************************)
(* ciao-controller/instance.go                                             *)
(***************************************************************************)

\* isCNCIWorkload: one of the defaults has type network node
isCNCIWorkload(workload) ==
    \E r \in 1..Len(workload) : workload[r].Type = NetworkNode

\* GetResources: RequestedResources turned into a map, one entry after the
\* other, a later entry of the same type replacing the earlier one
RECURSIVE GetResourcesFrom(_, _, _)
GetResourcesFrom(rr, k, resources) ==
    IF k > Len(rr)
    THEN resources
    ELSE GetResourcesFrom(rr, k + 1,
            [ty \in (DOMAIN resources) \cup {rr[k].Type} |->
                IF ty = rr[k].Type THEN rr[k].Value ELSE resources[ty]])

GetResources(rr) == GetResourcesFrom(rr, 1, <<>>)

\* i.Usage[name]: a Go map read, 0 for a missing key
UsageOf(usage, name) == IF name \in DOMAIN usage THEN usage[name] ELSE 0

\* types.Resource.OverLimit: the request would take the usage over the limit
OverLimit(res, request) ==
    /\ res.Limit # Unlimited
    /\ res.Usage + request > res.Limit

\* a faulty variant of AllowedFrom: the instance count is not checked
RECURSIVE AllowedSkipsCount(_, _, _)
AllowedSkipsCount(resources, k, usage) ==
    IF k > Len(resources) THEN TRUE
    ELSE IF resources[k].Rtype = InstanceCountType
         THEN AllowedSkipsCount(resources, k + 1, usage)
         ELSE IF OverLimit(resources[k], UsageOf(usage, resources[k].Rname))
              THEN FALSE
              ELSE AllowedSkipsCount(resources, k + 1, usage)

\* a faulty variant of AllowedFrom: the instance count is checked like the others,
\* against the instance's requested amount
RECURSIVE AllowedCountsRequested(_, _, _)
AllowedCountsRequested(resources, k, usage) ==
    IF k > Len(resources) THEN TRUE
    ELSE IF OverLimit(resources[k], UsageOf(usage, resources[k].Rname))
         THEN FALSE
         ELSE AllowedCountsRequested(resources, k + 1, usage)

\* Allowed, the loop over tenant.Resources from index k on
RECURSIVE AllowedFrom(_, _, _)
AllowedFrom(resources, k, usage) ==
    IF k > Len(resources) THEN TRUE
    ELSE IF resources[k].Rtype = InstanceCountType
         THEN IF OverLimit(resources[k], 1)
              THEN FALSE
              ELSE AllowedFrom(resources, k + 1, usage)
         ELSE IF OverLimit(resources[k], UsageOf(usage, resources[k].Rname))
              THEN FALSE
              ELSE AllowedFrom(resources, k + 1, usage)

\* Allowed: (ok, err) for instance i; getTenantFails is the datastore's answer
Allowed(i, getTenantFails) ==
    IF i.CNCI THEN [ok |-> TRUE, err |-> None]
    ELSE IF getTenantFails THEN [ok |-> FALSE, err |-> "GetTenant"]
    ELSE [ok |-> AllowedFrom(tenants[i.TenantID], 1, i.Usage), err |-> None]

\* datastore AddInstance: the instance's usage is added to the tenant's,
\* and the instance count grows by one
AddInstance(resources, usage) ==
    [k \in 1..Len(resources) |->
        [resources[k] EXCEPT !.Usage =
            IF resources[k].Rtype = InstanceCountType
            THEN @ + 1
            ELSE @ + UsageOf(usage, resources[k].Rname)]]

\* the hosts of a tenant's subnet
Hosts == 1..MaxLaunch

\* datastore AllocateTenantIP: the first host of the tenant's subnet that is
\* not allocated
AllocateTenantIP(pool) ==
    CHOOSE n \in Hosts : n \notin pool /\ \A m \in 1..(n - 1) : m \in pool

\* the net.IP of a host of the tenant's subnet
IPv4(n) == <<172, 16, n \div 256, n % 256>>

\* newTenantHardwareAddr: 02:00 followed by the four bytes of the address
newTenantHardwareAddr(ip) == <<2, 0>> \o ip

\* net.IP.String: the dotted decimal text, kept as the list of its numbers
IPString(ip) == [dotted |-> ip]

\* config.ip of an instance without an address: the empty string
NoIP == [dotted |-> <<>>]

\* datastore ReleaseTenantIP: the text is parsed and its host is free again
ReleaseTenantIP(pool, ip) ==
    IF Len(ip.dotted) = 4
    THEN pool \ {ip.dotted[3] * 256 + ip.dotted[4]}
    ELSE pool

(***************************************************************************)
(* testutil SSNTP client: the waiter tables                                *)
(***************************************************************************)

\* the four tables: CmdChans, EventChans, ErrorChans, StatusChans
Kinds == {"cmd", "event", "error", "status"}

\* the operation codes used as keys of each table
Keys(kind) ==
    CASE kind = "cmd" -> {"START", "STATS"}
      [] kind = "event" -> {"NodeDisconnected", "TenantAdded"}
      [] kind = "error" -> {"StartFailure"}
      [] kind = "status" -> {"READY"}

\* callers of Add*Chan and Get*ChanResult
Waiters == {"w1", "w2"}
\* the connection's flow (the Notify callbacks) and a caller of Send*/Shutdown
Senders == {"conn", "test"}

\* the instances the START commands name
InstanceUUIDs == {"i1", "i2"}

\* c, ok := client.CmdChans[cmd] with ok false
NoChan == 0
Chans == 1..MaxOps

\* var result Result; from is history: the kind of operation whose completion
\* the result reports ("close" for the zero value read from a closed channel)
Result(err, from) == [Err |-> err, from |-> from]

IdleWaiter == [pc |-> "idle", kind |-> None, key |-> None, c |-> NoChan,
               result |-> Result(None, None), err |-> None]
IdleSender == [pc |-> "idle", op |-> None, todo |-> <<>>, c |-> NoChan]

ChanInit ==
    /\ chanTables = [k \in Kinds |-> [key \in Keys(k) |-> NoChan]]
    /\ locks = [k \in Kinds |-> None]
    /\ closed = {}
    /\ nextChan = 1
    /\ waiter = [w \in Waiters |-> IdleWaiter]
    /\ sender = [s \in Senders |-> IdleSender]
    /\ instances = <<>>
    /\ picked = [c \in Chans |-> 0]
    /\ ops = 0
    /\ resolved = {}
    /\ orphaned = {}
    /\ missed = {}
    /\ leftBlocked = {}

\* a faulty variant of SetChan: an entry that is there is kept
SetChanKeepsOld(table, key, c) ==
    IF table[key] # NoChan THEN table ELSE [table EXCEPT ![key] = c]

\* client.CmdChans[cmd] = c
SetChan(table, key, c) == [table EXCEPT ![key] = c]

\* a faulty variant of DelChan: the entry stays
DelChanKeeps(table, key) == table

\* delete(client.CmdChans, cmd)
DelChan(table, key) == [table EXCEPT ![key] = NoChan]

\* Add*Chan: a fresh channel is stored under the key, with the table's lock
\* taken and released; a caller may register again once its Get*ChanResult
\* has returned, or without ever calling it
AddChan(w, kind, key) ==
    /\ waiter[w].pc # "waiting"
    /\ ops < MaxOps
    /\ ops' = ops + 1
    /\ locks[kind] = None
    /\ chanTables' = [chanTables EXCEPT ![kind] = SetChan(@, key, nextChan)]
    /\ waiter' = [waiter EXCEPT ![w] =
            [pc |-> "registered", kind |-> kind, key |-> key, c |-> nextChan,
             result |-> Result(None, None), err |-> None]]
    /\ nextChan' = nextChan + 1
    /\ resolved' = resolved \ {<<kind, key>>}
    /\ orphaned' = IF chanTables[kind][key] # NoChan
                   THEN orphaned \cup {chanTables[kind][key]}
                   ELSE orphaned
    /\ UNCHANGED <<locks, closed, sender, instances, picked, missed, leftBlocked>>
    /\ UNCHANGED besidesClient

\* Get*ChanResult is called: the caller enters the select
GetChanResult(w) ==
    /\ waiter[w].pc = "registered"
    /\ waiter' = [waiter EXCEPT ![w].pc = "waiting"]
    /\ UNCHANGED <<chanTables, locks, closed, nextChan, sender, instances,
                   picked, ops, resolved, orphaned, missed, leftBlocked>>
    /\ UNCHANGED besidesClient

\* Get*ChanResult, case <-time.After(...): the timeout error is returned
Timeout(w) ==
    /\ waiter[w].pc = "waiting"
    /\ waiter' = [waiter EXCEPT ![w].pc = "timedout", ![w].err = "Timeout"]
    /\ UNCHANGED <<chanTables, locks, closed, nextChan, sender, instances,
                   picked, ops, resolved, orphaned, missed, leftBlocked>>
    /\ UNCHANGED besidesClient

\* Get*ChanResult, case result = <-*c on a closed channel: the zero Result
RecvClosed(w) ==
    /\ waiter[w].pc = "waiting"
    /\ waiter[w].c \in closed
    /\ waiter' = [waiter EXCEPT ![w].pc = "got",
                                ![w].result = Result(None, "close")]
    /\ UNCHANGED <<chanTables, locks, closed, nextChan, sender, instances,
                   picked, ops, resolved, orphaned, missed, leftBlocked>>
    /\ UNCHANGED besidesClient

\* the waiters still blocked, or still to block, on an open channel
Blocked(ws, cl) ==
    {w \in Waiters : ws[w].pc \in {"registered", "waiting"} /\ ws[w].c \notin cl}

\* the handler of sender s goes on after one SendResultAndDel*Chan returned:
\* to its next call, or it returns
Continue(s) ==
    IF Len(sender[s].todo) > 1
    THEN [sender[s] EXCEPT !.pc = "lock", !.todo = Tail(@), !.c = NoChan]
    ELSE IdleSender

\* history: the waiters a returning disconnect handler leaves blocked
LeftBy(s, ws, cl) ==
    IF Len(sender[s].todo) = 1 /\ sender[s].op \in {"DisconnectNotify", "Shutdown"}
    THEN leftBlocked \cup Blocked(ws, cl)
    ELSE leftBlocked

\* SendResultAndDel*Chan up to the send: Lock, the lookup and, with an entry,
\* the delete; without an entry the call unlocks and returns
SendResultAndDelChan(s) ==
    /\ sender[s].pc = "lock"
    /\ LET call == Head(sender[s].todo)
           c == chanTables[call.table][call.key]
       IN  /\ locks[call.table] = None
           /\ IF c # NoChan
              THEN /\ chanTables' = [chanTables EXCEPT ![call.table] =
                            DelChan(@, call.key)]
                   /\ locks' = [locks EXCEPT ![call.table] = s]
                   /\ sender' = [sender EXCEPT ![s].pc = "send", ![s].c = c]
                   /\ picked' = [picked EXCEPT ![c] = @ + 1]
                   /\ resolved' = resolved \cup {<<call.table, call.key>>}
                   /\ UNCHANGED <<missed, leftBlocked>>
              ELSE /\ sender' = [sender EXCEPT ![s] = Continue(s)]
                   /\ missed' = missed \cup ({<<call.table, call.key>>} \cap resolved)
                   /\ leftBlocked' = LeftBy(s, waiter, closed)
                   /\ UNCHANGED <<chanTables, locks, picked, resolved>>
    /\ UNCHANGED <<closed, nextChan, waiter, instances, ops, orphaned>>
    /\ UNCHANGED besidesClient

\* c <- result meets result = <-*c of a Get*ChanResult; the sender then closes
\* the channel, unlocks and returns, the receiver returns the result
Deliver(s, w) ==
    /\ sender[s].pc = "send"
    /\ waiter[w].pc = "waiting"
    /\ waiter[w].c = sender[s].c
    /\ LET call == Head(sender[s].todo)
       IN  /\ waiter' = [waiter EXCEPT
                    ![w].pc = "got",
                    ![w].result = call.result,
                    ![w].err = call.result.Err]
           /\ closed' = closed \cup {sender[s].c}
           /\ locks' = [locks EXCEPT ![call.table] = None]
           /\ sender' = [sender EXCEPT ![s] = Continue(s)]
           /\ leftBlocked' = LeftBy(s, waiter', closed')
    /\ UNCHANGED <<chanTables, nextChan, instances, picked, ops, resolved,
                   orphaned, missed>>
    /\ UNCHANGED besidesClient

\* closeClientChans, one of its four loops: with the table's lock, every
\* channel of the table is closed and its entry deleted
closeClientChans(s) ==
    /\ sender[s].pc = "sweep"
    /\ LET kind == Head(sender[s].todo)
       IN  /\ locks[kind] = None
           /\ closed' = closed \cup
                    ({chanTables[kind][key] : key \in Keys(kind)} \ {NoChan})
           /\ chanTables' = [chanTables EXCEPT ![kind] =
                    [key \in Keys(kind) |-> NoChan]]
    /\ sender' = [sender EXCEPT ![s] =
            IF Len(sender[s].todo) > 1
            THEN [sender[s] EXCEPT !.todo = Tail(@)]
            ELSE IdleSender]
    /\ leftBlocked' = LeftBy(s, waiter, closed')
    /\ UNCHANGED <<locks, nextChan, waiter, instances, picked, ops, resolved,
                   orphaned, missed>>
    /\ UNCHANGED besidesClient

\* a call SendResultAndDel<table>Chan(key, result)
Call(table, key, err, from) ==
    [table |-> table, key |-> key, result |-> Result(err, from)]

\* a handler starts on flow s with the SendResultAndDel*Chan calls it makes
Handle(s, op, todo) ==
    /\ sender[s].pc = "idle"
    /\ ops < MaxOps
    /\ ops' = ops + 1
    /\ sender' = [sender EXCEPT ![s] =
            [pc |-> "lock", op |-> op, todo |-> todo, c |-> NoChan]]
    /\ UNCHANGED <<chanTables, locks, closed, nextChan, waiter,
                   picked, resolved, orphaned, missed, leftBlocked>>
    /\ UNCHANGED besidesClient

\* a faulty variant of handleStart: the instance is listed although the Start
\* failed
handleStartAnyway(instanceUUID, startFail) ==
    Append(instances, [InstanceUUID |-> instanceUUID, State |-> "Running"])

\* handleStart: with StartFail nothing changes; otherwise the instance is
\* appended to the list, Running
handleStart(instanceUUID, startFail) ==
    IF startFail
    THEN instances
    ELSE Append(instances, [InstanceUUID |-> instanceUUID, State |-> "Running"])

\* a faulty variant of CommandNotify: the command waiter is resolved before
\* the error waiter
CommandNotifyCmdFirst(command, instanceUUID, startFail) ==
    /\ Handle("conn", "CommandNotify",
            IF command = "START" /\ startFail
            THEN << Call("cmd", command, "StartFailReason", "cmd"),
                    Call("error", "StartFailure", "StartFailReason", "error") >>
            ELSE << Call("cmd", command, None, "cmd") >>)
    /\ instances' = IF command = "START"
                    THEN handleStart(instanceUUID, startFail)
                    ELSE instances

\* CommandNotify: START runs handleStart, which with StartFail sends the
\* failure and resolves the StartFailure error waiter; a command without a
\* handler runs none; every command then resolves its command waiter
CommandNotify(command, instanceUUID, startFail) ==
    /\ Handle("conn", "CommandNotify",
            IF command = "START" /\ startFail
            THEN << Call("error", "StartFailure", "StartFailReason", "error"),
                    Call("cmd", command, "StartFailReason", "cmd") >>
            ELSE << Call("cmd", command, None, "cmd") >>)
    /\ instances' = IF command = "START"
                    THEN handleStart(instanceUUID, startFail)
                    ELSE instances

\* EventNotify: the event waiter of the received event is resolved
EventNotify(event) ==
    /\ Handle("conn", "EventNotify", << Call("event", event, None, "event") >>)
    /\ UNCHANGED instances

\* DisconnectNotify
DisconnectNotify ==
    /\ Handle("conn", "DisconnectNotify",
            << Call("event", "NodeDisconnected", None, "event") >>)
    /\ UNCHANGED instances

\* SendStatsCmd: a STATS command is sent and its command waiter resolved
SendStatsCmd ==
    /\ Handle("test", "SendStatsCmd", << Call("cmd", "STATS", None, "cmd") >>)
    /\ UNCHANGED instances

\* SendStatus: a READY status is sent; the waiter resolved is the command
\* waiter of STATS
SendStatus ==
    /\ Handle("test", "SendStatus", << Call("cmd", "STATS", None, "status") >>)
    /\ UNCHANGED instances

\* Shutdown: the connection is closed, then closeClientChans runs its loops
Shutdown ==
    /\ sender["test"].pc = "idle"
    /\ ops < MaxOps
    /\ ops' = ops + 1
    /\ sender' = [sender EXCEPT !["test"] =
            [pc |-> "sweep", op |-> "Shutdown",
             todo |-> <<"cmd", "event", "error", "status">>, c |-> NoChan]]
    /\ UNCHANGED <<chanTables, locks, closed, nextChan, waiter, instances,
                   picked, resolved, orphaned, missed, leftBlocked>>
    /\ UNCHANGED besidesClient

ChanNext ==
    \/ \E w \in Waiters, kind \in Kinds : \E key \in Keys(kind) :
            AddChan(w, kind, key)
    \/ \E w \in Waiters : GetChanResult(w)
    \/ \E w \in Waiters : Timeout(w)
    \/ \E w \in Waiters : RecvClosed(w)
    \/ \E s \in Senders : SendResultAndDelChan(s)
    \/ \E s \in Senders, w \in Waiters : Deliver(s, w)
    \/ \E s \in Senders : closeClientChans(s)
    \/ \E command \in Keys("cmd"), i \in InstanceUUIDs, startFail \in BOOLEAN :
            CommandNotify(command, i, startFail)
    \/ \E event \in Keys("event") : EventNotify(event)
    \/ DisconnectNotify
    \/ SendStatsCmd
    \/ SendStatus
    \/ Shutdown


(***************************************************************************)
(* testutil SSNTP client: the agent's commands, with no waiter registered  *)
(***************************************************************************)

\* the instances of a batch of Start commands
BatchUUIDs == {"i1", "i2", "i3"}

Commands == {"START", "STOP", "RESTART", "DELETE"}

\* no frame is waiting
NoFrame == [command |-> None, InstanceUUID |-> None, traced |-> FALSE]

\* no error frame was sent
NoError == [error |-> None, InstanceUUID |-> None, Reason |-> None]

\* no command was handled
NoCmd == [command |-> None, InstanceUUID |-> None, fail |-> FALSE,
          before |-> <<>>, result |-> Result(None, None), error |-> NoError]

AgentInit ==
    /\ inbox = NoFrame
    /\ traces = 0
    /\ tracesLock = None
    /\ instancesLock = None
    /\ reported = {}
    /\ startedOK = {}
    /\ failedStarts = {}
    /\ lastCmd = NoCmd
    /\ cmds = 0

\* a faulty variant of handleStop: the instance exits although the Stop failed
handleStopAnyway(instanceUUID, stopFail) ==
    [k \in 1..Len(instances) |->
        IF instances[k].InstanceUUID = instanceUUID
        THEN [instances[k] EXCEPT !.State = "Exited"]
        ELSE instances[k]]

\* handleStop: with StopFail nothing changes; otherwise every entry of the
\* instance is set to Exited
handleStop(instanceUUID, stopFail) ==
    IF stopFail
    THEN instances
    ELSE [k \in 1..Len(instances) |->
            IF instances[k].InstanceUUID = instanceUUID
            THEN [instances[k] EXCEPT !.State = "Exited"]
            ELSE instances[k]]

\* handleRestart: with RestartFail nothing changes; otherwise every entry of
\* the instance is set to Running
handleRestart(instanceUUID, restartFail) ==
    IF restartFail
    THEN instances
    ELSE [k \in 1..Len(instances) |->
            IF instances[k].InstanceUUID = instanceUUID
            THEN [instances[k] EXCEPT !.State = "Running"]
            ELSE instances[k]]

\* the index of the first entry of the instance from k on, 0 if there is none
RECURSIVE FirstEntry(_, _)
FirstEntry(instanceUUID, k) ==
    IF k > Len(instances) THEN 0
    ELSE IF instances[k].InstanceUUID = instanceUUID THEN k
         ELSE FirstEntry(instanceUUID, k + 1)

\* a faulty variant of handleDelete: the last entry goes when the instance
\* has none
handleDeleteLast(instanceUUID, deleteFail) ==
    IF deleteFail \/ Len(instances) = 0
    THEN instances
    ELSE LET i == IF FirstEntry(instanceUUID, 1) = 0
                  THEN Len(instances) ELSE FirstEntry(instanceUUID, 1)
         IN  SubSeq(instances, 1, i - 1) \o
             SubSeq(instances, i + 1, Len(instances))

\* handleDelete: with DeleteFail nothing changes; otherwise the first entry
\* of the instance is cut out of the list
handleDelete(instanceUUID, deleteFail) ==
    IF deleteFail
    THEN instances
    ELSE LET i == FirstEntry(instanceUUID, 1)
         IN  IF i = 0 THEN instances
             ELSE SubSeq(instances, 1, i - 1) \o
                  SubSeq(instances, i + 1, Len(instances))

\* the reason of the failure a handler puts in result.Err
FailReason(command) ==
    CASE command = "START" -> "StartFailReason"
      [] command = "STOP" -> "StopFailReason"
      [] command = "RESTART" -> "RestartFailReason"
      [] command = "DELETE" -> "DeleteFailReason"

\* sendStartFailure, sendStopFailure, sendRestartFailure, sendDeleteFailure:
\* the error frame sent
sendFailure(command, instanceUUID) ==
    [error |-> CASE command = "START" -> "StartFailure"
                 [] command = "STOP" -> "StopFailure"
                 [] command = "RESTART" -> "RestartFailure"
                 [] command = "DELETE" -> "DeleteFailure",
     InstanceUUID |-> instanceUUID,
     Reason |-> FailReason(command)]

\* a command frame arrives on the connection; the instances of the Start
\* commands are distinct
Arrive(command, instanceUUID, traced) ==
    /\ inbox = NoFrame
    /\ cmds < MaxCmds
    /\ cmds' = cmds + 1
    /\ command = "START" => instanceUUID \notin startedOK \cup failedStarts
    /\ inbox' = [command |-> command, InstanceUUID |-> instanceUUID,
                 traced |-> traced]
    /\ UNCHANGED <<instances, traces, tracesLock, instancesLock, reported,
                   startedOK, failedStarts, lastCmd>>
    /\ UNCHANGED besidesAgent

\* the list the handler of the received command leaves
Handled(fail) ==
    CASE inbox.command = "START" -> handleStart(inbox.InstanceUUID, fail)
      [] inbox.command = "STOP" -> handleStop(inbox.InstanceUUID, fail)
      [] inbox.command = "RESTART" -> handleRestart(inbox.InstanceUUID, fail)
      [] inbox.command = "DELETE" -> handleDelete(inbox.InstanceUUID, fail)

\* CommandNotify up to the handler's instancesLock.Lock(): a traced frame has
\* been kept, under tracesLock, and the handler, which does not fail the
\* command, holds instancesLock and is changing the list
HandlerLocks ==
    /\ inbox # NoFrame
    /\ instancesLock = None
    /\ inbox.traced => tracesLock = None
    /\ traces' = IF inbox.traced THEN traces + 1 ELSE traces
    /\ inbox' = [inbox EXCEPT !.traced = FALSE]
    /\ instancesLock' = "handler"
    /\ UNCHANGED <<instances, tracesLock, reported, startedOK, failedStarts,
                   lastCmd, cmds>>
    /\ UNCHANGED besidesAgent

\* CommandNotify with no waiter registered: a traced frame is kept, under
\* tracesLock; the command's handler runs, changing the list under
\* instancesLock; the SendResultAndDel*Chan calls find no entry.  fail: the
\* handler's StartFail, StopFail, RestartFail or DeleteFail is set.
CommandNotifyNoWaiter(fail) ==
    /\ inbox # NoFrame
    /\ inbox.traced => tracesLock = None
    /\ instancesLock = "handler" => ~fail
    /\ instancesLock' = None
    /\ \A k \in Kinds : locks[k] = None
    /\ traces' = IF inbox.traced THEN traces + 1 ELSE traces
    /\ instances' = Handled(fail)
    /\ lastCmd' = [command |-> inbox.command,
                   InstanceUUID |-> inbox.InstanceUUID,
                   fail |-> fail,
                   before |-> instances,
                   result |-> Result(IF fail THEN FailReason(inbox.command)
                                     ELSE None, "cmd"),
                   error |-> IF fail
                             THEN sendFailure(inbox.command, inbox.InstanceUUID)
                             ELSE NoError]
    /\ startedOK' = IF inbox.command = "START" /\ ~fail
                    THEN startedOK \cup {inbox.InstanceUUID} ELSE startedOK
    /\ failedStarts' = IF inbox.command = "START" /\ fail
                       THEN failedStarts \cup {inbox.InstanceUUID}
                       ELSE failedStarts
    /\ inbox' = NoFrame
    /\ UNCHANGED <<tracesLock, reported, cmds>>
    /\ UNCHANGED besidesAgent

\* StatsPayload: the report names the instances of the list it is given
StatsPayload(list) == {list[k].InstanceUUID : k \in 1..Len(list)}

\* what SendStatsCmd may read of client.instances, which it reads without
\* instancesLock: the list, or the list as the handler that ran last found it
\* (the read began before that handler)
StatsViews ==
    {instances} \cup {lastCmd.before : c \in {lastCmd.command} \ {None}}
                \cup {Handled(FALSE) : h \in {instancesLock} \ {None}}

\* SendStatsCmd with no waiter registered: the report is built from
\* client.instances and sent
SendStatsCmdNoWaiter(view) ==
    /\ cmds < MaxCmds
    /\ cmds' = cmds + 1
    /\ \A k \in Kinds : locks[k] = None
    /\ view \in StatsViews
    /\ reported' = reported \cup StatsPayload(view)
    /\ UNCHANGED <<instances, inbox, traces, tracesLock, instancesLock,
                   startedOK, failedStarts, lastCmd>>
    /\ UNCHANGED besidesAgent

\* SendTrace, from its Lock of tracesLock: the frames are dumped, the report
\* is marshalled and the TraceReport event is being sent
SendTrace ==
    /\ cmds < MaxCmds
    /\ cmds' = cmds + 1
    /\ tracesLock = None
    /\ tracesLock' = "SendTrace"
    /\ UNCHANGED <<instances, inbox, traces, instancesLock, reported,
                   startedOK, failedStarts, lastCmd>>
    /\ UNCHANGED besidesAgent

\* SendTrace, the send done: client.traces is nil, the event waiter (none
\* here) is resolved and the deferred Unlock runs
SendTraceReturn ==
    /\ tracesLock = "SendTrace"
    /\ traces' = 0
    /\ tracesLock' = None
    /\ UNCHANGED <<instances, inbox, instancesLock, reported, startedOK,
                   failedStarts, lastCmd, cmds>>
    /\ UNCHANGED besidesAgent

AgentNext ==
    \/ \E command \in Commands, i \in BatchUUIDs, traced \in BOOLEAN :
            Arrive(command, i, traced)
    \/ \E fail \in BOOLEAN : CommandNotifyNoWaiter(fail)
    \/ \E view \in StatsViews : SendStatsCmdNoWaiter(view)
    \/ SendTrace
    \/ SendTraceReturn
    \/ HandlerLocks

(***************************************************************************)
(* The compute API: createServer, deleteServer, serverAction and           *)
(* tenantServersAction, with the agent behind them.                        *)
(***************************************************************************)

\* the IDs of the instances, in the order startWorkload creates them
ServerIDs == <<"i1", "i2">>

\* the lists of server IDs of a request to tenantServersAction
IDLists ==
    {<<>>} \cup {<<ServerIDs[a]>> : a \in 1..Len(ServerIDs)}
           \cup {<<ServerIDs[a], ServerIDs[b]>> :
                    a \in 1..Len(ServerIDs), b \in 1..Len(ServerIDs)}

Actions == {"os-start", "os-stop", "os-delete", "os-resize"}

ComputeStatusPending == "pending"
ComputeStatusRunning == "active"
ComputeStatusStopped == "exited"

\* no request; instances: what startWorkload returned; found: the datastore
\* knew the server of the request
NoRequest == [handler |-> None, startWorkload |-> FALSE, err |-> None,
              instances |-> <<>>, found |-> FALSE,
              tenant |-> "", token |-> [tenants |-> {}, admin |-> FALSE],
              adminToken |-> FALSE]

\* the tokens of the requests: the tenants the identity service finds the
\* token valid for (validateService), and whether it finds it an admin's
\* (validateProjectRole)
Tokens == {[tenants |-> {}, admin |-> FALSE],
           [tenants |-> {"t1"}, admin |-> FALSE],
           [tenants |-> {"t2"}, admin |-> FALSE],
           [tenants |-> {}, admin |-> TRUE]}

tenantToken(token, tenant) == tenant \in token.tenants

adminToken(token) == token.admin

\* a faulty variant of validateToken: a token of any tenant is accepted
validateAnyTenant(tenant, token) ==
    token.tenants # {} \/ adminToken(token)

\* validateToken: without a tenant in the path, or when the token is not the
\* tenant's, the token must be an admin's
validateToken(tenant, token) ==
    IF tenant = "" THEN adminToken(token)
    ELSE IF tenantToken(token, tenant) = FALSE THEN adminToken(token)
    ELSE TRUE

\* validateToken has called adminToken
CallsAdminToken(tenant, token) ==
    tenant = "" \/ tenantToken(token, tenant) = FALSE

\* the request a handler has taken, its token checked
Request(handler, tenant, token) ==
    [NoRequest EXCEPT !.handler = handler, !.tenant = tenant, !.token = token,
                      !.adminToken = CallsAdminToken(tenant, token)]

\* no answer; a request whose handler panics keeps status 0
NoResponse == [handler |-> None, status |-> 0, servers |-> <<>>]

APIInit ==
    /\ servers = {}
    /\ outbox = <<>>
    /\ created = 0
    /\ lastRequest = NoRequest
    /\ called = <<>>
    /\ response = NoResponse
    /\ requests = 0

\* ds.GetInstance: the IDs it finds, and the instance of an ID it finds
Known == {i.ID : i \in servers}
GetInstance(instanceID) == CHOOSE i \in servers : i.ID = instanceID

\* the instances startWorkload returns when it has created n more
Created(n) == SubSeq(ServerIDs, created + 1, created + n)

\* returnErrorCode, and the answer of a handler that writes its status
Answer(handler, status, list) ==
    [handler |-> handler, status |-> status, servers |-> list]

\* createServer: startWorkload returns err or the n instances it created;
\* instanceToServer fails for the bad-th of them (0: for none)
createServerAnswer(valid, n, err, bad) ==
    IF ~valid THEN Answer("createServer", 401, <<>>)
    ELSE IF err # None THEN Answer("createServer", 500, <<>>)
    ELSE IF bad # 0 THEN Answer("createServer", 500, <<>>)
    ELSE IF n = 0
         THEN \* instances[0] of an empty list: the handler panics
              Answer("createServer", 0, <<>>)
         ELSE Answer("createServer", 202, Created(n))

createServer(tenant, token, n, err, bad) ==
    /\ requests < MaxRequests
    /\ requests' = requests + 1
    /\ created + n <= Len(ServerIDs)
    /\ err # None => n = 0
    /\ bad \in 0..n
    /\ response' = createServerAnswer(validateToken(tenant, token), n, err, bad)
    /\ lastRequest' = [Request("createServer", tenant, token) EXCEPT
                        !.startWorkload = validateToken(tenant, token),
                                    !.err = IF validateToken(tenant, token) THEN err ELSE None,
                                    !.instances = IF validateToken(tenant, token) THEN Created(n)
                                                  ELSE <<>>]
    /\ called' = <<>>
    /\ created' = IF validateToken(tenant, token) THEN created + n ELSE created
    /\ servers' = IF validateToken(tenant, token)
                  THEN servers \cup
                       {[ID |-> ServerIDs[k], TenantID |-> tenant,
                         State |-> ComputeStatusPending] :
                            k \in created + 1..created + n}
                  ELSE servers
    /\ outbox' = IF validateToken(tenant, token)
                 THEN outbox \o
                      [k \in 1..n |-> [command |-> "START",
                                       InstanceUUID |-> Created(n)[k],
                                       traced |-> FALSE]]
                 ELSE outbox
    /\ UNCHANGED besidesAPI

\* the controller's call of an instanceAction and the command it sends
InstanceActionOf(action) ==
    CASE action = "os-start" -> "restartInstance"
      [] action = "os-stop" -> "stopInstance"
      [] action = "os-delete" -> "deleteInstance"

CommandOf(instanceAction) ==
    CASE instanceAction = "restartInstance" -> "RESTART"
      [] instanceAction = "stopInstance" -> "STOP"
      [] instanceAction = "deleteInstance" -> "DELETE"

ActionCall(instanceAction, instanceID, err) ==
    [action |-> instanceAction, ID |-> instanceID, err |-> err]

\* the commands the calls that returned no error sent to the agent
RECURSIVE Sent(_)
Sent(calls) ==
    IF calls = <<>> THEN <<>>
    ELSE (IF Head(calls).err = None
          THEN <<[command |-> CommandOf(Head(calls).action),
                  InstanceUUID |-> Head(calls).ID, traced |-> FALSE]>>
          ELSE <<>>) \o Sent(Tail(calls))

\* deleteServer
deleteServerAnswer(tenant, valid, instance, err) ==
    IF ~valid THEN Answer("deleteServer", 401, <<>>)
    ELSE IF instance \notin Known THEN Answer("deleteServer", 404, <<>>)
    ELSE IF GetInstance(instance).TenantID # tenant
         THEN Answer("deleteServer", 404, <<>>)
    ELSE IF err # None THEN Answer("deleteServer", 500, <<>>)
    ELSE Answer("deleteServer", 202, <<>>)

deleteServer(tenant, token, instance, err) ==
    /\ requests < MaxRequests
    /\ requests' = requests + 1
    /\ response' = deleteServerAnswer(tenant, validateToken(tenant, token), instance, err)
    /\ lastRequest' = [Request("deleteServer", tenant, token) EXCEPT
                        !.found = instance \in Known]
    /\ called' = IF response'.status \in {202, 500}
                 THEN <<ActionCall("deleteInstance", instance, err)>>
                 ELSE <<>>
    /\ outbox' = outbox \o Sent(called')
    /\ UNCHANGED <<servers, created>>
    /\ UNCHANGED besidesAPI

\* serverAction: os-start and os-stop only
serverActionAnswer(tenant, valid, instance, action, err) ==
    IF ~valid THEN Answer("serverAction", 401, <<>>)
    ELSE IF instance \notin Known THEN Answer("serverAction", 404, <<>>)
    ELSE IF GetInstance(instance).TenantID # tenant
         THEN Answer("serverAction", 404, <<>>)
    ELSE IF action \notin {"os-start", "os-stop"}
         THEN Answer("serverAction", 503, <<>>)
    ELSE IF err # None THEN Answer("serverAction", 500, <<>>)
    ELSE Answer("serverAction", 202, <<>>)

serverAction(tenant, token, instance, action, err) ==
    /\ requests < MaxRequests
    /\ requests' = requests + 1
    /\ response' = serverActionAnswer(tenant, validateToken(tenant, token), instance, action, err)
    /\ lastRequest' = [Request("serverAction", tenant, token) EXCEPT
                        !.found = instance \in Known]
    /\ called' = IF response'.status \in {202, 500}
                 THEN <<ActionCall(InstanceActionOf(action), instance, err)>>
                 ELSE <<>>
    /\ outbox' = outbox \o Sent(called')
    /\ UNCHANGED <<servers, created>>
    /\ UNCHANGED besidesAPI

\* tenantServersAction's loop over the ServerIDs of the lastRequest, from the
\* k-th: the calls it makes and the status it ends with.  The result of
\* actionFunc is dropped.
RECURSIVE ActOnList(_, _, _, _, _)
ActOnList(tenant, action, ids, failing, k) ==
    IF k > Len(ids) THEN [calls |-> <<>>, status |-> 202]
    ELSE IF ids[k] \notin Known THEN [calls |-> <<>>, status |-> 404]
    ELSE IF GetInstance(ids[k]).TenantID # tenant
         THEN [calls |-> <<>>, status |-> 404]
    ELSE LET rest == ActOnList(tenant, action, ids, failing, k + 1)
         IN  [calls |-> <<ActionCall(InstanceActionOf(action), ids[k],
                               IF ids[k] \in failing THEN "error" ELSE None)>>
                        \o rest.calls,
              status |-> rest.status]

\* the status an action acts on; the empty string is no filter
statusFilter(action) ==
    CASE action = "os-start" -> ComputeStatusStopped
      [] action = "os-stop" -> ComputeStatusRunning
      [] action = "os-delete" -> ""

\* ds.GetAllInstancesFromTenant, less the instances the filter skips
Relevant(tenant, action) ==
    SelectSeq(ServerIDs,
        LAMBDA id : /\ id \in Known
                    /\ GetInstance(id).TenantID = tenant
                    /\ \/ statusFilter(action) = ""
                       \/ GetInstance(id).State = statusFilter(action))

\* tenantServersAction's loop over all the instances of the tenant
ActOnAll(tenant, action, failing) ==
    [calls |-> [k \in 1..Len(Relevant(tenant, action)) |->
                    ActionCall(InstanceActionOf(action), Relevant(tenant, action)[k],
                         IF Relevant(tenant, action)[k] \in failing
                         THEN "error" ELSE None)],
     status |-> 202]

\* the instances whose action returns an error: none or one of those known
Failing == {{}} \cup {{id} : id \in Known}

\* tenantServersAction: the calls it makes and the status it answers
tenantServersActionDoes(tenant, valid, action, ids, failing) ==
    IF ~valid THEN [calls |-> <<>>, status |-> 401]
    ELSE IF action \notin {"os-start", "os-stop", "os-delete"}
         THEN [calls |-> <<>>, status |-> 503]
    ELSE IF Len(ids) > 0 THEN ActOnList(tenant, action, ids, failing, 1)
    ELSE ActOnAll(tenant, action, failing)

tenantServersAction(tenant, token, action, ids, failing) ==
    /\ requests < MaxRequests
    /\ requests' = requests + 1
    /\ called' = tenantServersActionDoes(tenant, validateToken(tenant, token),
                                          action, ids, failing).calls
    /\ response' = Answer("tenantServersAction",
            tenantServersActionDoes(tenant, validateToken(tenant, token),
                                    action, ids, failing).status,
            <<>>)
    /\ lastRequest' = Request("tenantServersAction", tenant, token)
    /\ outbox' = outbox \o Sent(called')
    /\ UNCHANGED <<servers, created>>
    /\ UNCHANGED besidesAPI

\* clearEvents: no tenant is in the path
clearEvents(token, err) ==
    /\ requests < MaxRequests
    /\ requests' = requests + 1
    /\ response' = IF ~validateToken("", token)
                   THEN Answer("clearEvents", 401, <<>>)
                   ELSE IF err # None THEN Answer("clearEvents", 500, <<>>)
                   ELSE Answer("clearEvents", 202, <<>>)
    /\ lastRequest' = Request("clearEvents", "", token)
    /\ called' = IF validateToken("", token)
                 THEN <<ActionCall("ClearLog", None, err)>>
                 ELSE <<>>
    /\ UNCHANGED <<servers, created, outbox>>
    /\ UNCHANGED besidesAPI

\* the agent receives the next command the controller sent
Receive ==
    /\ inbox = NoFrame
    /\ outbox # <<>>
    /\ inbox' = Head(outbox)
    /\ outbox' = Tail(outbox)
    /\ UNCHANGED <<servers, created, lastRequest, called, response, requests>>
    /\ UNCHANGED <<instances, traces, tracesLock, instancesLock, reported,
                   startedOK, failedStarts, lastCmd, cmds>>
    /\ UNCHANGED <<quotaVars, dsVars, tableVars, libVars>>

\* the states of the agent's instances, as the datastore names them
ComputeStatus(state) ==
    IF state = "Running" THEN ComputeStatusRunning ELSE ComputeStatusStopped

\* the controller takes the agent's statistics: the instances the agent
\* lists get the state it reports
StatsReceived ==
    /\ servers' =
        {IF \E k \in 1..Len(instances) : instances[k].InstanceUUID = i.ID
         THEN [i EXCEPT !.State = ComputeStatus(
                    instances[CHOOSE k \in 1..Len(instances) :
                                instances[k].InstanceUUID = i.ID].State)]
         ELSE i : i \in servers}
    /\ servers' # servers
    /\ UNCHANGED <<outbox, created, lastRequest, called, response, requests>>
    /\ UNCHANGED besidesAPI

\* the controller takes the InstanceDeleted event of an instance the agent
\* started and has deleted: the datastore forgets it
InstanceDeleted(instanceID) ==
    /\ instanceID \in Known
    /\ instanceID \in startedOK
    /\ \A k \in 1..Len(instances) : instances[k].InstanceUUID # instanceID
    /\ servers' = servers \ {GetInstance(instanceID)}
    /\ UNCHANGED <<outbox, created, lastRequest, called, response, requests>>
    /\ UNCHANGED besidesAPI

APINext ==
    \/ \E tenant \in Tenants, token \in Tokens, n \in 0..Len(ServerIDs),
          err \in {None, "error"}, bad \in 0..Len(ServerIDs) :
            createServer(tenant, token, n, err, bad)
    \/ \E tenant \in Tenants, token \in Tokens, a \in 1..Len(ServerIDs),
          err \in {None, "error"} :
            deleteServer(tenant, token, ServerIDs[a], err)
    \/ \E tenant \in Tenants, token \in Tokens, a \in 1..Len(ServerIDs),
          action \in Actions, err \in {None, "error"} :
            serverAction(tenant, token, ServerIDs[a], action, err)
    \/ \E tenant \in Tenants, token \in Tokens, action \in Actions,
          ids \in IDLists, failing \in Failing :
            tenantServersAction(tenant, token, action, ids, failing)
    \/ \E token \in Tokens, err \in {None, "error"} : clearEvents(token, err)
    \/ Receive
    \/ \E fail \in BOOLEAN : CommandNotifyNoWaiter(fail)
    \/ StatsReceived
    \/ \E a \in 1..Len(ServerIDs) : InstanceDeleted(ServerIDs[a])

(***************************************************************************)
(* libsnnet: the Vnic and the kernel's links                               *)
(***************************************************************************)

Vnics == {"v1", "v2", "v3"}

TenantVM == "TenantVM"
TenantContainer == "TenantContainer"

\* newVnic: the link is a GenericLink of index 0, the name is empty (0)
newVnic(id) ==
    [GlobalID |-> id, Role |-> TenantVM, LinkName |-> 0,
     Link |-> [Index |-> 0, Type |-> "tun"]]

\* newContainerVnic: the link is a Veth of index 0
newContainerVnic(id) ==
    [GlobalID |-> id, Role |-> TenantContainer, LinkName |-> 0,
     Link |-> [Index |-> 0, Type |-> "veth"]]

\* the type of the link the kernel makes for a role
LinkType(role) == IF role = TenantVM THEN "tun" ELSE "veth"

NoCall == [op |-> None, v |-> None, err |-> None, kernelCalls |-> 0,
           bound |-> FALSE, existed |-> FALSE, failed |-> FALSE,
           bridge |-> FALSE, link |-> [Index |-> 0, Type |-> "tun"]]

\* two handles of one VM interface and one of a container interface
VnicInit ==
    /\ vnic = [v \in Vnics |->
                IF v = "v3" THEN newContainerVnic("g2") ELSE newVnic("g1")]
    /\ links = {}
    /\ nextIndex = 1
    /\ bound = [v \in Vnics |-> FALSE]
    /\ lastCall = NoCall


\* netlink.LinkByAlias, netlink.LinkByName and the link of an index
LinkByAlias(alias) == {l \in links : l.Alias = alias}
LinkByName(name) == {l \in links : l.Name = name}
LinkByIndex(index) == {l \in links : l.Index = index}

\* v.Link == nil || v.Link.Attrs().Index == 0; newVnic and newContainerVnic
\* always set v.Link
Uninitialized(link) == link.Index = 0

\* getDevice: the interface of the alias is looked up; only when it is there
\* and of the role's type are v.LinkName and v.Link set
getDevice(v) ==
    LET h == vnic[v]
        found == LinkByAlias(h.GlobalID)
        ok == /\ h.GlobalID # ""
              /\ found # {}
              /\ \E l \in found : l.Type = LinkType(h.Role)
        link == CHOOSE l \in found : l.Type = LinkType(h.Role)
    IN  /\ vnic' = IF ok
                   THEN [vnic EXCEPT ![v].LinkName = link.Name,
                                     ![v].Link = [Index |-> link.Index,
                                                  Type |-> link.Type]]
                   ELSE vnic
        /\ bound' = [bound EXCEPT ![v] = @ \/ ok]
        /\ lastCall' = [NoCall EXCEPT !.op = "getDevice", !.v = v,
                            !.err = IF ok THEN None ELSE "get device",
                            !.kernelCalls = IF h.GlobalID = "" THEN 0 ELSE 1,
                            !.bound = bound[v],
                            !.existed = found # {},
                            !.link = h.Link]
        /\ UNCHANGED <<links, nextIndex>>
        /\ UNCHANGED besidesVnic

\* create: the name is generated when there is none, and then an interface
\* of the alias must not exist; LinkAdd makes the link and v.Link is set;
\* when setAlias fails the link is destroyed again and v.Link stays set.
\* failed: the kernel call that fails.
create(v, failed) ==
    LET h == vnic[v]
        name == IF h.LinkName = 0 THEN nextIndex ELSE h.LinkName
        exists == h.LinkName = 0 /\ LinkByAlias(h.GlobalID) # {}
        added == /\ h.GlobalID # ""
                 /\ ~exists
                 /\ failed # "LinkAdd"
                 /\ LinkByName(name) = {}
        ok == added /\ failed # "setAlias"
        link == [Index |-> nextIndex, Name |-> name, Alias |-> h.GlobalID,
                 Type |-> LinkType(h.Role), Up |-> FALSE, Master |-> 0]
    IN  /\ nextIndex <= MaxIndex
        /\ failed \in {None, "LinkAdd", "setAlias"}
        /\ vnic' = IF h.GlobalID = "" THEN vnic
                   ELSE IF added
                   THEN [vnic EXCEPT ![v].LinkName = name,
                                     ![v].Link = [Index |-> link.Index,
                                                  Type |-> link.Type]]
                   ELSE [vnic EXCEPT ![v].LinkName = name]
        /\ links' = IF ok THEN links \cup {link} ELSE links
        /\ nextIndex' = IF added THEN nextIndex + 1 ELSE nextIndex
        /\ bound' = [bound EXCEPT ![v] = @ \/ ok]
        /\ lastCall' = [NoCall EXCEPT !.op = "create", !.v = v,
                            !.err = IF ok THEN None ELSE "create",
                            !.bound = bound[v],
                            !.existed = LinkByAlias(h.GlobalID) # {},
                            !.failed = failed # None,
                            !.link = h.Link]
        /\ UNCHANGED besidesVnic

VnicOps == {"enable", "disable", "destroy", "attach", "detach"}

\* what the kernel call of an operation leaves of the link
KernelCall(op, l, bridge) ==
    CASE op = "enable" -> {[l EXCEPT !.Up = TRUE]}
      [] op = "disable" -> {[l EXCEPT !.Up = FALSE]}
      [] op = "destroy" -> {}
      [] op = "attach" -> {[l EXCEPT !.Master = bridge]}
      [] op = "detach" -> {[l EXCEPT !.Master = 0]}

\* enable, disable, destroy, attach, detach: an uninitialized Vnic is an
\* error; attach wants a bridge with a link of an index (bridge # 0); then
\* the kernel is called, and fails when the link is gone or when failed.
\* bridge: the index of the bridge's link, 0 for a bridge not initialized
Operate(v, op, bridge, failed) ==
    LET h == vnic[v]
        refused == \/ Uninitialized(h.Link)
                   \/ op = "attach" /\ bridge = 0
        there == LinkByIndex(h.Link.Index)
        ok == ~refused /\ there # {} /\ ~failed
    IN  /\ op \in VnicOps
        /\ links' = IF ok
                    THEN (links \ there) \cup
                         KernelCall(op, CHOOSE l \in there : TRUE, bridge)
                    ELSE links
        /\ lastCall' = [NoCall EXCEPT !.op = op, !.v = v,
                            !.err = IF ok THEN None ELSE op,
                            !.kernelCalls = IF refused THEN 0 ELSE 1,
                            !.bound = bound[v],
                            !.existed = there # {},
                            !.failed = failed,
                            !.bridge = bridge # 0,
                            !.link = h.Link]
        /\ UNCHANGED <<vnic, nextIndex, bound>>
        /\ UNCHANGED besidesVnic

VnicNext ==
    \/ \E v \in Vnics : getDevice(v)
    \/ \E v \in Vnics, failed \in {None, "LinkAdd", "setAlias"} :
            create(v, failed)
    \/ \E v \in Vnics, op \in VnicOps, bridge \in {0, MaxIndex + 1},
          failed \in BOOLEAN :
            Operate(v, op, bridge, failed)

(***************************************************************************)
(* The launcher: detaching a volume from an instance                       *)
(***************************************************************************)

VolumeUUIDs == {"vol1", "vol2", "vol3", "vol4"}

\* the errors cfg.save returns
SaveErrors == {"EIO", "ENOSPC"}

DetachVolumeNotAttached == "not_attached"
DetachVolumeDetachFailure == "detach_failure"

NoDetach == [volumeUUID |-> None, before |-> {}, err |-> None, code |-> None]

\* an instance without volumes
DetachIdle ==
    /\ cfg = [Volumes |-> {}, saved |-> {}]
    /\ lastDetach = NoDetach

\* an instance with any of the volumes attached, and saved so
DetachInit ==
    /\ \E attached \in SUBSET VolumeUUIDs :
            cfg = [Volumes |-> attached, saved |-> attached]
    /\ lastDetach = NoDetach

\* cfg.save: the configuration is written to the instance's directory
save(c, err) == IF err = None THEN [c EXCEPT !.saved = c.Volumes] ELSE c

\* processDetachVolume as it would be without putting the volume back
processDetachVolumeNoRestore(volumeUUID, err) ==
    LET found == volumeUUID \in cfg.Volumes
        deleted == [cfg EXCEPT !.Volumes = @ \ {volumeUUID}]
    IN  /\ cfg' = IF found THEN save(deleted, err) ELSE cfg
        /\ lastDetach' =
                [volumeUUID |-> volumeUUID, before |-> cfg.Volumes,
                 err |-> IF found THEN err ELSE None,
                 code |-> IF ~found THEN DetachVolumeNotAttached
                          ELSE IF err # None THEN DetachVolumeDetachFailure
                          ELSE None]
        /\ UNCHANGED besidesDetach

\* processDetachVolume: a volume not in cfg.Volumes is not attached; the
\* volume is deleted from cfg.Volumes and the configuration saved; when the
\* save fails the volume is put back.
\* err: what cfg.save returns
processDetachVolume(volumeUUID, err) ==
    LET found == volumeUUID \in cfg.Volumes
        deleted == [cfg EXCEPT !.Volumes = @ \ {volumeUUID}]
        tried == save(deleted, err)
    IN  /\ cfg' = IF ~found THEN cfg
                  ELSE IF err # None
                  THEN [tried EXCEPT !.Volumes = @ \cup {volumeUUID}]
                  ELSE tried
        /\ lastDetach' =
                [volumeUUID |-> volumeUUID, before |-> cfg.Volumes,
                 err |-> IF found THEN err ELSE None,
                 code |-> IF ~found THEN DetachVolumeNotAttached
                          ELSE IF err # None THEN DetachVolumeDetachFailure
                          ELSE None]
        /\ UNCHANGED besidesDetach

DetachNext ==
    \E volumeUUID \in VolumeUUIDs, err \in SaveErrors \cup {None} :
        processDetachVolume(volumeUUID, err)

(***************************************************************************)
(* The compute API: pagers                                                 *)
(***************************************************************************)

\* the IDs of the items, and 0 for the empty string
ItemIDs == 1 .. MaxItems

\* the lists of items without repetition
ItemLists(n) ==
    {l \in UNION {[1 .. k -> ItemIDs] : k \in 0 .. n} :
        \A a, b \in DOMAIN l : a # b => l[a] # l[b]}

PagerKinds == {"serverPager", "nodePager", "nodeServerPager"}

\* pagerFilterType
none == 0
workloadFilter == 1

\* the workload of an instance
WorkloadID(id) == id % 2

\* a value of the query: not given, not a number, a number, or a number
\* that does not fit 32 bits
Absent == [given |-> FALSE, number |-> FALSE, fits |-> FALSE, n |-> 0]
NotANumber == [given |-> TRUE, number |-> FALSE, fits |-> FALSE, n |-> 0]
Number(n) == [given |-> TRUE, number |-> TRUE, fits |-> TRUE, n |-> n]
TooLarge == [given |-> TRUE, number |-> TRUE, fits |-> FALSE, n |-> 0]

LimitValues ==
    {Absent, NotANumber, TooLarge} \cup {Number(n) : n \in {-1, 1, 2}}
OffsetValues ==
    {Absent, NotANumber, TooLarge} \cup
    {Number(n) : n \in {-1, 0, 1, MaxItems, MaxItems + 1}}
\* the marker: not given, or an ID (0: the empty string, MaxItems + 1: the
\* ID of no item)
Markers == {Absent} \cup {Number(n) : n \in 0 .. MaxItems + 1}

\* strconv.ParseInt(s, 10, 32): an error for what is not a number of 32 bits
ParseInt(value) ==
    IF value.number /\ value.fits
    THEN [err |-> FALSE, n |-> value.n]
    ELSE [err |-> TRUE, n |-> 0]

\* pagerQueryParse: limit and offset are 0 when not given or not parsed;
\* the offset is read only when no marker is given
pagerQueryParse(limit, offset, marker) ==
    [limit |-> IF limit.given /\ ~ParseInt(limit).err
               THEN ParseInt(limit).n ELSE 0,
     offset |-> IF ~marker.given /\ offset.given /\ ~ParseInt(offset).err
                THEN ParseInt(offset).n ELSE 0,
     marker |-> IF marker.given THEN marker.n ELSE 0]

\* a slice: nil, or the items
Nil == [nil |-> TRUE, items |-> <<>>]
Slice(items) == [nil |-> FALSE, items |-> items]

NoPage == [panic |-> FALSE, err |-> FALSE, page |-> <<>>]

\* the first limit items when limit > 0, else all
Take(items, limit) ==
    IF limit > 0 /\ Len(items) > limit THEN SubSeq(items, 1, limit) ELSE items

\* serverPager.filter: TRUE for an instance to leave out
filter(filterType, workload, id) ==
    filterType = workloadFilter /\ WorkloadID(id) # workload

\* serverPager.getInstances: an empty page for nil or an offset at or past
\* the end; instances[offset:] fails for an offset out of range; the items
\* not filtered are appended until the page has limit items
getInstances(filterType, workload, slice, limit, offset) ==
    IF slice.nil \/ offset >= Len(slice.items)
    THEN NoPage
    ELSE IF offset < 0 \/ offset > Len(slice.items)
    THEN [NoPage EXCEPT !.panic = TRUE]
    ELSE LET kept(id) == ~(filterType # none /\ filter(filterType, workload, id))
             rest == SubSeq(slice.items, offset + 1, Len(slice.items))
         IN  [NoPage EXCEPT !.page = Take(SelectSeq(rest, kept), limit)]

\* nodePager.getNodes and nodeServerPager.getNodeServers: as getInstances,
\* without a filter
getNodes(filterType, workload, nodes, limit, offset) ==
    getInstances(none, workload, nodes, limit, offset)

getNodeServers(filterType, workload, stats, limit, offset) ==
    getInstances(none, workload, stats, limit, offset)

getItems(kind, filterType, workload, items, limit, offset) ==
    CASE kind = "serverPager" ->
            getInstances(filterType, workload, items, limit, offset)
      [] kind = "nodePager" ->
            getNodes(filterType, workload, items, limit, offset)
      [] kind = "nodeServerPager" ->
            getNodeServers(filterType, workload, items, limit, offset)

\* the index of the first item of the ID, 0 when there is none
IndexOf(items, id) ==
    IF \E i \in DOMAIN items : items[i] = id
    THEN CHOOSE i \in DOMAIN items :
            /\ items[i] = id
            /\ \A j \in DOMAIN items : items[j] = id => i <= j
    ELSE 0

\* a list that was never appended to is nil
ListOf(items) == IF items = <<>> THEN Nil ELSE Slice(items)

\* nextPage of the three pagers: without a marker the page of the offset;
\* with one the page after the marked item, nil after the last item, and an
\* error when no item has the ID
nextPageResult(kind, filterType, workload, items, query) ==
    LET i == IndexOf(items, query.marker)
    IN  IF query.marker = 0
        THEN getItems(kind, filterType, workload, ListOf(items),
                      query.limit, query.offset)
        ELSE IF i = 0 THEN [NoPage EXCEPT !.err = TRUE]
        ELSE IF i >= Len(items)
        THEN getItems(kind, filterType, workload, Nil, query.limit, 0)
        ELSE getItems(kind, filterType, workload,
                      Slice(SubSeq(items, i + 1, Len(items))), query.limit, 0)

NoQuery == [limit |-> 0, offset |-> 0, marker |-> 0]

PagerIdle ==
    /\ pagers = <<>>
    /\ lastPage = [kind |-> None, query |-> NoQuery, result |-> NoPage]

\* any list of items
PagerInit ==
    /\ pagers \in ItemLists(MaxItems)
    /\ lastPage = [kind |-> None, query |-> NoQuery, result |-> NoPage]

nextPage(kind, filterType, workload, limit, offset, marker) ==
    LET query == pagerQueryParse(limit, offset, marker)
    IN  /\ lastPage' = [kind |-> kind, query |-> query,
                        result |-> nextPageResult(kind, filterType, workload,
                                                  pagers, query)]
        /\ UNCHANGED pagers
        /\ UNCHANGED besidesPager

PagerNext ==
    \E kind \in PagerKinds, filterType \in {none, workloadFilter},
       workload \in {0, 1}, limit \in LimitValues, offset \in OffsetValues,
       marker \in Markers :
        /\ kind # "serverPager" => filterType = none /\ workload = 0
        /\ filterType = none => workload = 0
        /\ nextPage(kind, filterType, workload, limit, offset, marker)

(***************************************************************************)
(* The compute API: the CNCIs                                              *)
(***************************************************************************)

\* the subnets of a CNCI
SubnetLists == {<<>>, <<"s1">>, <<"s2">>, <<"s1", "s2">>}

\* the CNCI of the k-th tenant, with its instance or not yet with one (the
\* instance ID 0 is the empty string)
CNCIsOf(k) ==
    {[InstanceID |-> id, TenantID |-> k, IPAddress |-> k, Subnets |-> subnets] :
        id \in {0, k}, subnets \in SubnetLists}

\* the summaries the datastore can hold: one CNCI a tenant
CNCISummaries ==
    UNION {{l \in [1 .. n -> UNION {CNCIsOf(k) : k \in 1 .. MaxCNCIs}] :
                \A k \in 1 .. n : l[k] \in CNCIsOf(k)} : n \in 0 .. MaxCNCIs}

\* the datastore's summary: every CNCI for the empty ID, else the CNCI of
\* the instance
GetTenantCNCISummary(cnciID) ==
    IF cnciID = 0 THEN cnciSummary
    ELSE SelectSeq(cnciSummary, LAMBDA c : c.InstanceID = cnciID)

NoList == [handler |-> None, cnciID |-> 0, code |-> 0, CNCIs |-> <<>>]

CNCIIdle ==
    /\ cnciSummary = <<>>
    /\ lastList = NoList

CNCIInit ==
    /\ cnciSummary \in CNCISummaries
    /\ lastList = NoList

\* payloads.CiaoCNCI
CiaoCNCI(cnci, subnets) ==
    [ID |-> cnci.InstanceID, TenantID |-> cnci.TenantID,
     IPv4 |-> cnci.IPAddress, Subnets |-> subnets]

\* the loop of listCNCIs: subnets is declared before the loop and appended
\* to for every CNCI with an instance; the entry takes the slice as it is
RECURSIVE listCNCIsLoop(_, _, _)
listCNCIsLoop(summary, subnets, entries) ==
    IF summary = <<>> THEN entries
    ELSE LET cnci == Head(summary)
         IN  IF cnci.InstanceID = 0
             THEN listCNCIsLoop(Tail(summary), subnets, entries)
             ELSE listCNCIsLoop(Tail(summary), subnets \o cnci.Subnets,
                    Append(entries, CiaoCNCI(cnci, subnets \o cnci.Subnets)))

\* listCNCIs: 401 without a valid token, 500 when the datastore fails, else
\* the entries of the loop
listCNCIs(token, err) ==
    /\ lastList' =
            IF validateToken("", token) = FALSE
            THEN [NoList EXCEPT !.handler = "listCNCIs", !.code = 401]
            ELSE IF err # None
            THEN [NoList EXCEPT !.handler = "listCNCIs", !.code = 500]
            ELSE [NoList EXCEPT !.handler = "listCNCIs", !.code = 200,
                    !.CNCIs = listCNCIsLoop(GetTenantCNCISummary(0),
                                            <<>>, <<>>)]
    /\ UNCHANGED cnciSummary
    /\ UNCHANGED besidesCNCI

\* listCNCIDetails: 401 without a valid token, 404 when the datastore
\* fails, else the first CNCI of the summary with its subnets
listCNCIDetails(cnciID, token, err) ==
    LET summary == GetTenantCNCISummary(cnciID)
    IN  /\ lastList' =
                IF validateToken("", token) = FALSE
                THEN [NoList EXCEPT !.handler = "listCNCIDetails",
                                    !.cnciID = cnciID, !.code = 401]
                ELSE IF err # None
                THEN [NoList EXCEPT !.handler = "listCNCIDetails",
                                    !.cnciID = cnciID, !.code = 404]
                ELSE [NoList EXCEPT !.handler = "listCNCIDetails",
                        !.cnciID = cnciID, !.code = 200,
                        !.CNCIs = IF Len(summary) > 0
                                  THEN <<CiaoCNCI(summary[1], summary[1].Subnets)>>
                                  ELSE <<>>]
        /\ UNCHANGED cnciSummary
        /\ UNCHANGED besidesCNCI

CNCINext ==
    \/ \E token \in Tokens, err \in {None, "StorageError"} :
            listCNCIs(token, err)
    \/ \E cnciID \in 1 .. MaxCNCIs, token \in Tokens,
          err \in {None, "StorageError"} :
            listCNCIDetails(cnciID, token, err)

LibInit == VnicInit /\ DetachIdle /\ PagerIdle /\ CNCIIdle

(***************************************************************************)
(* The launch path as startWorkload runs it.                               *)
(***************************************************************************)

IdleFlow == [pc |-> "idle"]

\* a tenant's resources with the given limits and no usage
NewTenant(instanceLimit, vcpuLimit) ==
    << [Rname |-> "instances", Rtype |-> InstanceCountType,
        Limit |-> instanceLimit, Usage |-> 0],
       [Rname |-> "vcpus", Rtype |-> 2, Limit |-> vcpuLimit, Usage |-> 0] >>

QuotaInit ==
    /\ \E a \in Limits, b \in Limits :
            tenants = [t \in Tenants |->
                        IF t = "t1" THEN NewTenant(a, b) ELSE NewTenant(b, a)]
    /\ flow = [f \in Flows |-> IdleFlow]
    /\ launches = 0
    /\ admitted = [t \in Tenants |-> 0]
    /\ raced = FALSE

\* startWorkload, first step: newInstance builds the instance from the workload
newInstance(f, tenantID, workload) ==
    /\ flow[f].pc = "idle"
    /\ launches < MaxLaunch
    /\ launches' = launches + 1
    /\ flow' = [flow EXCEPT ![f] =
            [pc |-> "created",
             TenantID |-> tenantID,
             CNCI |-> isCNCIWorkload(workload),
             Usage |-> GetResources(workload)]]
    /\ UNCHANGED <<tenants, admitted, raced>>
    /\ UNCHANGED besidesLaunch

\* another launch request of the same tenant was admitted and has not yet
\* recorded its usage
Unrecorded(f) ==
    \E g \in Flows \ {f} :
        /\ flow[g].pc = "checked"
        /\ flow[g].ok
        /\ ~flow[g].CNCI
        /\ flow[g].TenantID = flow[f].TenantID

\* startWorkload, second step: the quota check
CallAllowed(f, getTenantFails) ==
    /\ flow[f].pc = "created"
    /\ LET r == Allowed(flow[f], getTenantFails)
       IN  flow' = [flow EXCEPT ![f] =
                [pc |-> "checked",
                 TenantID |-> flow[f].TenantID,
                 CNCI |-> flow[f].CNCI,
                 Usage |-> flow[f].Usage,
                 ok |-> r.ok,
                 err |-> r.err,
                 tenant |-> tenants[flow[f].TenantID]]]
    /\ raced' = (raced \/ (~flow[f].CNCI /\ Unrecorded(f)))
    /\ UNCHANGED <<tenants, launches, admitted>>
    /\ UNCHANGED besidesLaunch

\* startWorkload, third step for an admitted instance: Add
Add(f) ==
    /\ flow[f].pc = "checked"
    /\ flow[f].ok
    /\ IF flow[f].CNCI
       THEN UNCHANGED <<tenants, admitted>>
       ELSE /\ tenants' = [tenants EXCEPT ![flow[f].TenantID] =
                    AddInstance(@, flow[f].Usage)]
            /\ admitted' = [admitted EXCEPT ![flow[f].TenantID] = @ + 1]
    /\ flow' = [flow EXCEPT ![f] = IdleFlow]
    /\ UNCHANGED <<launches, raced>>
    /\ UNCHANGED besidesLaunch

\* startWorkload, third step for a denied instance: Clean
Clean(f) ==
    /\ flow[f].pc = "checked"
    /\ ~flow[f].ok
    /\ flow' = [flow EXCEPT ![f] = IdleFlow]
    /\ UNCHANGED <<tenants, launches, admitted, raced>>
    /\ UNCHANGED besidesLaunch

(***************************************************************************)
(* The launch path and the datastore: the network identity, the storage    *)
(* and the records of the instances.                                       *)
(***************************************************************************)

\* the config of a launch request that has no instance
NoConfig == [ID |-> 0, cnci |-> FALSE, ip |-> NoIP, mac |-> <<>>,
             device |-> FALSE]

\* no operation of the launch path has run
NoOp == [op |-> None, ID |-> 0, TenantID |-> None, CNCI |-> FALSE,
         ip |-> NoIP, failed |-> None, err |-> None, released |-> {}]

\* the outcome of an operation on the instance with config c: the call that
\* failed, if any, the error the operation returned, and the hosts of the
\* tenant's pool it released
Outcome(op, tenantID, c, failed, err) ==
    [op |-> op, ID |-> c.ID, TenantID |-> tenantID, CNCI |-> c.cnci,
     ip |-> c.ip, failed |-> failed, err |-> err,
     released |-> ipPool[tenantID] \ ipPool'[tenantID]]

DsInit ==
    /\ config = [f \in Flows |-> NoConfig]
    /\ ipPool = [t \in Tenants |-> {}]
    /\ store = {}
    /\ cncis = {}
    /\ blockDevices = [created |-> 0, recorded |-> 0, existing |-> {},
                       recordedIDs |-> {}, deletedIDs |-> {},
                       returnedIDs |-> {}]
    /\ lastOp = NoOp

\* the calls of newConfig whose failure newConfig does not return
NewConfigCalls == {"GetTenant", "CreateBlockDevice", "AddBlockDevice"}

\* a faulty variant of AllocatesIP: an address for every instance
AllocatesIPAlways(cnci) == TRUE

\* newConfig: if config.cnci == false an address is allocated
AllocatesIP(cnci) == ~cnci

\* var bd storage.BlockDevice: the zero block device, whose ID is empty
ZeroBlockDevice == [ID |-> 0]

\* CreateBlockDevice: the device it returns, with a fresh ID
CreateBlockDevice == [ID |-> blockDevices.created + 1]

\* DeleteBlockDevice: the devices left when the device of the ID is deleted
DeleteBlockDevice(existing, id) == existing \ {id}

\* getStorage for new storage: the device is created, then recorded with
\* AddBlockDevice, which is given bd, still the zero device; when that fails
\* DeleteBlockDevice is given bd.ID, not the ID of the device created, which
\* stays; bd = device only then, and bd.ID is returned
getStorage(failed) ==
    IF failed = "CreateBlockDevice" THEN blockDevices
    ELSE LET device == CreateBlockDevice
             bd == ZeroBlockDevice
         IN  IF failed = "AddBlockDevice"
             THEN [blockDevices EXCEPT
                    !.created = @ + 1,
                    !.existing = DeleteBlockDevice(@ \cup {device.ID}, bd.ID),
                    !.deletedIDs = @ \cup {bd.ID}]
             ELSE [blockDevices EXCEPT
                    !.created = @ + 1,
                    !.recorded = @ + 1,
                    !.existing = @ \cup {device.ID},
                    !.recordedIDs = @ \cup {bd.ID},
                    !.returnedIDs = @ \cup {device.ID}]

\* newConfig as newInstance calls it, all calls but AllocateTenantIP having
\* succeeded or their failure (failed) only logged.  hasStorage: the workload
\* has new storage.
newConfig(f, tenantID, workload, hasStorage, failed) ==
    /\ failed \in NewConfigCalls \cup {None}
    /\ LET cnci == isCNCIWorkload(workload)
           host == AllocateTenantIP(ipPool[tenantID])
           c == [ID |-> launches + 1,
                 cnci |-> cnci,
                 ip |-> IF AllocatesIP(cnci) THEN IPString(IPv4(host)) ELSE NoIP,
                 mac |-> IF AllocatesIP(cnci)
                         THEN newTenantHardwareAddr(IPv4(host)) ELSE <<>>,
                 device |-> (~cnci /\ hasStorage /\ failed # "CreateBlockDevice")]
       IN  /\ failed \in {"CreateBlockDevice", "AddBlockDevice"} =>
                (~cnci /\ hasStorage)
           /\ ipPool' = IF AllocatesIP(cnci)
                        THEN [ipPool EXCEPT ![tenantID] = @ \cup {host}]
                        ELSE ipPool
           /\ blockDevices' = IF ~cnci /\ hasStorage
                              THEN getStorage(failed) ELSE blockDevices
           /\ config' = [config EXCEPT ![f] = c]
           /\ lastOp' = Outcome("newInstance", tenantID, c, failed, None)
    /\ UNCHANGED <<store, cncis>>

\* newInstance when AllocateTenantIP fails: newConfig returns the error and
\* newInstance returns it, with no instance
newInstanceFails(f, tenantID, workload) ==
    /\ flow[f].pc = "idle"
    /\ launches < MaxLaunch
    /\ launches' = launches + 1
    /\ AllocatesIP(isCNCIWorkload(workload))
    /\ UNCHANGED <<tenants, flow, admitted, raced>>
    /\ UNCHANGED <<config, ipPool, store, cncis, blockDevices>>
    /\ lastOp' = Outcome("newInstance", tenantID,
            [NoConfig EXCEPT !.ID = launches + 1],
            "AllocateTenantIP", "AllocateTenantIP")
    /\ UNCHANGED besidesLaunch

\* the outcome of Allowed, as CallAllowed stored it
AllowedOutcome(f) ==
    /\ UNCHANGED <<config, ipPool, store, cncis, blockDevices>>
    /\ lastOp' = Outcome("Allowed", flow[f].TenantID, config[f],
                         flow'[f].err, flow'[f].err)

\* the record of an instance in the datastore
Record(tenantID, c) ==
    [ID |-> c.ID, TenantID |-> tenantID, ip |-> c.ip, State |-> "pending"]

\* Add: if i.CNCI == false the instance goes to AddInstance, otherwise to
\* AddTenantCNCI
AddsInstance(cnci) == ~cnci

\* Add, what the datastore stores when its call succeeds
AddToDatastore(f) ==
    /\ IF AddsInstance(config[f].cnci)
       THEN /\ store' = store \cup {Record(flow[f].TenantID, config[f])}
            /\ UNCHANGED cncis
       ELSE /\ cncis' = cncis \cup
                    {[TenantID |-> flow[f].TenantID, ID |-> config[f].ID,
                      mac |-> config[f].mac]}
            /\ UNCHANGED store
    /\ config' = [config EXCEPT ![f] = NoConfig]
    /\ UNCHANGED <<ipPool, blockDevices>>
    /\ lastOp' = Outcome("Add", flow[f].TenantID, config[f], None, None)

\* Add when AddInstance or AddTenantCNCI fails: nothing is stored, the error
\* is dropped and Add returns nil
AddFails(f) ==
    /\ flow[f].pc = "checked"
    /\ flow[f].ok
    /\ flow' = [flow EXCEPT ![f] = IdleFlow]
    /\ config' = [config EXCEPT ![f] = NoConfig]
    /\ UNCHANGED <<tenants, launches, admitted, raced>>
    /\ UNCHANGED <<ipPool, store, cncis, blockDevices>>
    /\ lastOp' = Outcome("Add", flow[f].TenantID, config[f],
            IF AddsInstance(config[f].cnci) THEN "AddInstance"
            ELSE "AddTenantCNCI",
            None)
    /\ UNCHANGED besidesLaunch

\* a faulty variant of CleanPool: no address is released
CleanKeepsIP(cnci, ip, pool, fails) == pool

\* Clean: if i.CNCI == false ReleaseTenantIP(i.TenantID, i.IPAddress); what
\* the tenant's pool is afterwards
CleanPool(cnci, ip, pool, fails) ==
    IF ~cnci /\ ~fails THEN ReleaseTenantIP(pool, ip) ELSE pool

\* Clean, what the datastore does; fails: ReleaseTenantIP fails, the error is
\* dropped and Clean returns nil
CleanIP(f, fails) ==
    /\ fails => ~config[f].cnci
    /\ ipPool' = [ipPool EXCEPT ![flow[f].TenantID] =
            CleanPool(config[f].cnci, config[f].ip, @, fails)]
    /\ lastOp' = Outcome("Clean", flow[f].TenantID, config[f],
            IF fails THEN "ReleaseTenantIP" ELSE None, None)
    /\ config' = [config EXCEPT ![f] = NoConfig]
    /\ UNCHANGED <<store, cncis, blockDevices>>

\* the agent reported a Start failure for a stored instance: the instance is
\* failed and Clean is called on it
StartFailure(r, fails) ==
    /\ r \in store
    /\ r.State = "pending"
    /\ ipPool' = [ipPool EXCEPT ![r.TenantID] = CleanPool(FALSE, r.ip, @, fails)]
    /\ lastOp' = Outcome("StartFailure", r.TenantID,
            [NoConfig EXCEPT !.ID = r.ID, !.ip = r.ip],
            IF fails THEN "ReleaseTenantIP" ELSE None, None)
    /\ store' = (store \ {r}) \cup {[r EXCEPT !.State = "failed"]}
    /\ UNCHANGED <<config, cncis, blockDevices>>
    /\ UNCHANGED quotaVars
    /\ UNCHANGED besidesLaunch

\* the agent reported a Start failure for a registered concentrator: Clean is
\* called on it
CNCIStartFailure(c) ==
    /\ c \in cncis
    /\ ipPool' = [ipPool EXCEPT ![c.TenantID] = CleanPool(TRUE, NoIP, @, FALSE)]
    /\ lastOp' = Outcome("StartFailure", c.TenantID,
            [NoConfig EXCEPT !.ID = c.ID, !.cnci = TRUE], None, None)
    /\ cncis' = cncis \ {c}
    /\ UNCHANGED <<config, store, blockDevices>>
    /\ UNCHANGED quotaVars
    /\ UNCHANGED besidesLaunch

\* the launch requests are served one after the other
LaunchFlows == {"f1"}

\* the workloads launched: a compute workload and a CNCI workload
LaunchWorkloads ==
    { << [Type |-> "vcpus", Value |-> 1] >>,
      << [Type |-> "vcpus", Value |-> 1], [Type |-> NetworkNode, Value |-> 1] >> }

LaunchNext ==
    \/ \E f \in LaunchFlows, t \in Tenants, wl \in LaunchWorkloads,
          hasStorage \in BOOLEAN, failed \in NewConfigCalls \cup {None} :
            newInstance(f, t, wl) /\ newConfig(f, t, wl, hasStorage, failed)
    \/ \E f \in LaunchFlows, t \in Tenants, wl \in LaunchWorkloads :
            newInstanceFails(f, t, wl)
    \/ \E f \in LaunchFlows, fails \in BOOLEAN :
            CallAllowed(f, fails) /\ AllowedOutcome(f)
    \/ \E f \in LaunchFlows : Add(f) /\ AddToDatastore(f)
    \/ \E f \in LaunchFlows : AddFails(f)
    \/ \E f \in LaunchFlows, fails \in BOOLEAN : Clean(f) /\ CleanIP(f, fails)
    \/ \E r \in store, fails \in BOOLEAN : StartFailure(r, fails)
    \/ \E c \in cncis : CNCIStartFailure(c)

\* the launch path on the quotas alone: the datastore's other state is left out
QuotaNext ==
    \/ \E f \in Flows, t \in Tenants, wl \in Workloads :
            newInstance(f, t, wl) /\ UNCHANGED dsVars
    \/ \E f \in Flows, fails \in BOOLEAN :
            CallAllowed(f, fails) /\ UNCHANGED dsVars
    \/ \E f \in Flows : Add(f) /\ UNCHANGED dsVars
    \/ \E f \in Flows : Clean(f) /\ UNCHANGED dsVars

\* the launch path alone: the client has no waiter and runs no handler
LaunchInit ==
    QuotaInit /\ DsInit /\ ChanInit /\ AgentInit /\ APIInit /\ LibInit

\* one tenant with room for one instance, one with room for one vcpu
DatastoreInit ==
    /\ tenants = [t \in Tenants |->
            IF t = "t1" THEN NewTenant(1, Unlimited) ELSE NewTenant(Unlimited, 1)]
    /\ flow = [f \in Flows |-> IdleFlow]
    /\ launches = 0
    /\ admitted = [t \in Tenants |-> 0]
    /\ raced = FALSE
    /\ DsInit
    /\ ChanInit
    /\ AgentInit
    /\ APIInit
    /\ LibInit

SpecLaunch == DatastoreInit /\ [][LaunchNext]_vars

SpecQuota == LaunchInit /\ [][QuotaNext]_vars

\* the launch path at rest
QuotaIdle ==
    /\ tenants = [t \in Tenants |-> NewTenant(Unlimited, Unlimited)]
    /\ flow = [f \in Flows |-> IdleFlow]
    /\ launches = 0
    /\ admitted = [t \in Tenants |-> 0]
    /\ raced = FALSE

\* the client alone: no launch is requested
ClientInit ==
    QuotaIdle /\ DsInit /\ ChanInit /\ AgentInit /\ APIInit /\ LibInit

SpecChan == ClientInit /\ [][ChanNext]_vars

\* the agent alone, with no waiter registered
SpecAgent == ClientInit /\ [][AgentNext]_vars

\* the compute API with the agent behind it, serving an instance of tenant
\* t1 that was launched earlier: the agent runs it and the datastore knows it
ServingInit ==
    /\ QuotaIdle
    /\ DsInit
    /\ chanTables = [k \in Kinds |-> [key \in Keys(k) |-> NoChan]]
    /\ locks = [k \in Kinds |-> None]
    /\ closed = {}
    /\ nextChan = 1
    /\ waiter = [w \in Waiters |-> IdleWaiter]
    /\ sender = [s \in Senders |-> IdleSender]
    /\ picked = [c \in Chans |-> 0]
    /\ ops = 0
    /\ resolved = {}
    /\ orphaned = {}
    /\ missed = {}
    /\ leftBlocked = {}
    /\ instances = <<[InstanceUUID |-> ServerIDs[1], State |-> "Running"]>>
    /\ inbox = NoFrame
    /\ traces = 0
    /\ tracesLock = None
    /\ instancesLock = None
    /\ reported = {}
    /\ startedOK = {ServerIDs[1]}
    /\ failedStarts = {}
    /\ lastCmd = NoCmd
    /\ cmds = 0
    /\ servers = {[ID |-> ServerIDs[1], TenantID |-> "t1",
                   State |-> ComputeStatusRunning]}
    /\ outbox = <<>>
    /\ created = 1
    /\ lastRequest = NoRequest
    /\ called = <<>>
    /\ response = NoResponse
    /\ requests = 0
    /\ LibInit

SpecAPI == ServingInit /\ [][APINext]_vars

\* the Vnic handles and the kernel alone
SpecVnic == ClientInit /\ [][VnicNext]_vars

ControllerIdle == QuotaIdle /\ DsInit /\ ChanInit /\ AgentInit /\ APIInit

\* the launcher detaching volumes from an instance with any volumes
DetachingInit ==
    ControllerIdle /\ VnicInit /\ DetachInit /\ PagerIdle /\ CNCIIdle

SpecDetach == DetachingInit /\ [][DetachNext]_vars

\* the pagers over any list of items
PagingInit ==
    ControllerIdle /\ VnicInit /\ DetachIdle /\ PagerInit /\ CNCIIdle

SpecPager == PagingInit /\ [][PagerNext]_vars

\* the CNCI requests over any summary of the datastore
ListingInit ==
    ControllerIdle /\ VnicInit /\ DetachIdle /\ PagerIdle /\ CNCIInit

SpecCNCI == ListingInit /\ [][CNCINext]_vars

(***************************************************************************)
(* Claims about the launch path.                                           *)
(***************************************************************************)

\* what a launch request asks of a tenant resource: one for the instance
\* count, the instance's amount for the resource name otherwise
Requested(res, usage) ==
    IF res.Rtype = InstanceCountType THEN 1 ELSE UsageOf(usage, res.Rname)

\* C1 (as amended): as long as every admitted launch request recorded its
\* usage before the next quota check of its tenant, the usage of every
\* resource with a positive limit is at most that limit.
C1_UsageWithinPositiveLimit ==
    ~raced =>
        \A t \in Tenants : \A k \in 1..Len(tenants[t]) :
            tenants[t][k].Limit > 0 => tenants[t][k].Usage <= tenants[t][k].Limit

\* C1, witness: requests were admitted one after the other, they filled a
\* limited resource up to its limit, and the next request was denied.
C1_QuotaFilled ==
    /\ ~raced
    /\ \E t \in Tenants, f \in Flows :
        /\ admitted[t] > 0
        /\ \E k \in 1..Len(tenants[t]) :
            /\ tenants[t][k].Limit > 0
            /\ tenants[t][k].Usage = tenants[t][k].Limit
        /\ flow[f].pc = "checked"
        /\ flow[f].TenantID = t
        /\ ~flow[f].ok
        /\ flow[f].err = None

\* C1 (original): after admitted launch requests, each recorded before the
\* next check, the usage of every resource is at most its limit.
C1_UsageWithinEveryLimit ==
    ~raced =>
        \A t \in Tenants : admitted[t] > 0 =>
            \A k \in 1..Len(tenants[t]) :
                tenants[t][k].Usage <= tenants[t][k].Limit

\* the launch requests of tenant t admitted so far: recorded, or past Allowed
AdmittedRequests(t) ==
    admitted[t] + Cardinality({f \in Flows :
        /\ flow[f].pc = "checked"
        /\ flow[f].ok
        /\ ~flow[f].CNCI
        /\ flow[f].TenantID = t})

\* C2: of the launch requests of a tenant with instance limit 1 and no
\* usage, concurrent ones included, at most one is admitted.
C2_AtMostOneAdmitted ==
    \A t \in Tenants :
        tenants[t][1].Limit = 1 => AdmittedRequests(t) <= 1

HostOf(ip) == ip.dotted[3] * 256 + ip.dotted[4]

\* C11: a launch request the quota check denied has reserved and persisted
\* nothing: no address of the tenant, no block device, no instance record.
C11_DeniedReservedNothing ==
    \A f \in Flows :
        (flow[f].pc = "checked" /\ ~flow[f].ok) =>
            /\ config[f].ip = NoIP
            /\ ~config[f].device
            /\ ~\E r \in store : r.ID = config[f].ID

\* the address of every instance in construction, and of every stored
\* instance that has not failed, is allocated in its tenant's pool
HeldAddressesAllocated ==
    /\ \A f \in Flows :
            config[f].ip # NoIP => HostOf(config[f].ip) \in ipPool[flow[f].TenantID]
    /\ \A r \in store :
            r.State = "pending" => HostOf(r.ip) \in ipPool[r.TenantID]

C13_FailureReturned == lastOp.failed # None => lastOp.err # None

\* C18: an instance of a CNCI workload has no address, is admitted whatever
\* the tenant's quotas and whether or not the tenant can be read, goes to
\* AddTenantCNCI and not to AddInstance, and its Clean releases nothing; any
\* other instance has an address, is denied when the tenant cannot be read
\* or a quota is exceeded, and goes to AddInstance.
C18_CNCIBypass ==
    /\ \A f \in Flows :
        config[f].ID # 0 => (config[f].cnci <=> config[f].ip = NoIP)
    /\ \A f \in Flows :
        flow[f].pc \in {"created", "checked"} =>
            flow[f].CNCI = config[f].cnci
    /\ \A f \in Flows :
        flow[f].pc = "checked" =>
            IF flow[f].CNCI
            THEN flow[f].ok /\ flow[f].err = None
            ELSE flow[f].ok <=>
                    (flow[f].err = None
                     /\ AllowedFrom(flow[f].tenant, 1, flow[f].Usage))
    /\ (lastOp.op = "Add" /\ lastOp.failed = None) =>
            IF lastOp.CNCI
            THEN /\ \E c \in cncis : c.ID = lastOp.ID
                 /\ ~\E r \in store : r.ID = lastOp.ID
            ELSE /\ \E r \in store : r.ID = lastOp.ID /\ r.ip = lastOp.ip
                 /\ ~\E c \in cncis : c.ID = lastOp.ID
    /\ \A r \in store : r.ip # NoIP
    /\ (lastOp.op \in {"Clean", "StartFailure"} /\ lastOp.CNCI) =>
            lastOp.released = {}

\* C18, witness: a CNCI instance was admitted and registered for a tenant
\* whose instance count is at its limit, next to a stored instance that has
\* an address.
C18_CNCIAdmittedOverQuota ==
    /\ lastOp.op = "Add" /\ lastOp.CNCI /\ lastOp.failed = None
    /\ \E c \in cncis : c.ID = lastOp.ID /\ c.TenantID = lastOp.TenantID
    /\ tenants[lastOp.TenantID][1].Limit > 0
    /\ tenants[lastOp.TenantID][1].Usage = tenants[lastOp.TenantID][1].Limit
    /\ \E r \in store : r.TenantID = lastOp.TenantID /\ r.ip # NoIP

\* the IDs of the devices CreateBlockDevice has returned
CreatedIDs == 1..blockDevices.created

\* C24: the block device IDs getStorage records in the datastore, returns and
\* deletes are IDs CreateBlockDevice returned, and the device of a launch
\* whose AddBlockDevice failed is deleted again.
C24_StorageKeepsTheCreatedID ==
    /\ blockDevices.recordedIDs \subseteq CreatedIDs
    /\ blockDevices.returnedIDs \subseteq CreatedIDs
    /\ blockDevices.deletedIDs \subseteq CreatedIDs
    /\ (lastOp.op = "newInstance" /\ lastOp.failed = "AddBlockDevice") =>
            blockDevices.created \notin blockDevices.existing

(***************************************************************************)
(* Claims about the agent's commands                                       *)
(***************************************************************************)

\* C14: in a batch of Starts, an instance whose Start the agent failed is
\* neither in the agent's instance list nor in any statistics report sent
\* since, and a Start that succeeded appended its instance, Running, to the
\* list the handler found.
C14_FailedStartNotListed ==
    /\ \A u \in failedStarts :
        /\ \A k \in 1..Len(instances) : instances[k].InstanceUUID # u
        /\ u \notin reported
    /\ (lastCmd.command = "START" /\ ~lastCmd.fail) =>
        instances = lastCmd.before \o
            <<[InstanceUUID |-> lastCmd.InstanceUUID, State |-> "Running"]>>

\* a batch with a failed and a succeeded Start, and a report sent after it
C14_BatchWithAFailure ==
    /\ failedStarts # {}
    /\ startedOK # {}
    /\ reported # {}

\* C15: a Stop, Restart or Delete the agent failed left the instance list as
\* the handler found it, sent the failure error of its kind for the instance,
\* and its result carries the failure reason.
C15_FailedCommandChangesNothing ==
    (lastCmd.command \in {"STOP", "RESTART", "DELETE"} /\ lastCmd.fail) =>
        /\ instances = lastCmd.before
        /\ lastCmd.error.InstanceUUID = lastCmd.InstanceUUID
        /\ lastCmd.error.error =
            CASE lastCmd.command = "STOP" -> "StopFailure"
              [] lastCmd.command = "RESTART" -> "RestartFailure"
              [] lastCmd.command = "DELETE" -> "DeleteFailure"
        /\ lastCmd.result.Err =
            CASE lastCmd.command = "STOP" -> "StopFailReason"
              [] lastCmd.command = "RESTART" -> "RestartFailReason"
              [] lastCmd.command = "DELETE" -> "DeleteFailReason"

\* a failed Stop of an instance that is listed, Running
C15_FailedStopOfRunning ==
    /\ lastCmd.command = "STOP"
    /\ lastCmd.fail
    /\ \E k \in 1..Len(instances) :
        /\ instances[k].InstanceUUID = lastCmd.InstanceUUID
        /\ instances[k].State = "Running"

\* C19: a traced command that has arrived is never kept waiting by a trace
\* report in progress: tracesLock, which CommandNotify takes for a traced
\* frame, is not held by SendTrace.
C19_TracedCommandNotKeptWaiting ==
    (inbox # NoFrame /\ inbox.traced) => tracesLock # "SendTrace"

\* C28: SendStatsCmd never reads the instance list while a handler holds
\* instancesLock and is changing it.
C28_StatsReadUnderLock ==
    [][(cmds' # cmds /\ UNCHANGED <<inbox, tracesLock>>) =>
            instancesLock # "handler"]_vars

(***************************************************************************)
(* Claims about the compute API                                            *)
(***************************************************************************)

\* C16: a request to serverAction or tenantServersAction in which
\* stopInstance, restartInstance or deleteInstance returned an error for an
\* instance is not answered 202 Accepted.
C16_ActionFailureReported ==
    (/\ response.handler \in {"serverAction", "tenantServersAction"}
     /\ \E k \in 1..Len(called) : called[k].err # None)
        => response.status # 202

\* the agent has handled a Delete of an instance its list did not hold
DeleteOfDeleted ==
    /\ lastCmd.command = "DELETE"
    /\ \A k \in 1..Len(lastCmd.before) :
        lastCmd.before[k].InstanceUUID # lastCmd.InstanceUUID

\* deleteServer has answered a request for an instance the datastore does
\* not know: with an error status, and without a call of deleteInstance
DeleteServerOfDeleted ==
    (response.handler = "deleteServer" /\ ~lastRequest.found) =>
        /\ response.status \in {401, 404}
        /\ called = <<>>

\* C17 as stated: a Delete of an instance that is already deleted leaves the
\* agent's list as handleDelete found it and its result has no error, and
\* deleteServer answers with an error status without calling deleteInstance.
C17_DeleteOfDeletedNoError ==
    /\ DeleteOfDeleted =>
        /\ instances = lastCmd.before
        /\ lastCmd.result.Err = None
    /\ DeleteServerOfDeleted

\* C17, amended: a Delete of an instance that is already deleted leaves the
\* agent's list as handleDelete found it; its result has no error unless the
\* agent is set to fail Deletes, and then it carries the fail reason;
\* deleteServer answers with an error status without calling deleteInstance.
C17_DeleteOfDeletedChangesNothing ==
    /\ DeleteOfDeleted =>
        /\ instances = lastCmd.before
        /\ lastCmd.result.Err =
            IF lastCmd.fail THEN "DeleteFailReason" ELSE None
    /\ DeleteServerOfDeleted

\* the agent has handled, without DeleteFail, a second Delete of an instance
\* it had started, and deleteServer has answered for an instance that the
\* datastore has forgotten
C17_DeletedTwice ==
    /\ DeleteOfDeleted
    /\ ~lastCmd.fail
    /\ lastCmd.InstanceUUID \in startedOK
    /\ response.handler = "deleteServer"
    /\ response.status = 404
    /\ ~lastRequest.found

\* C20: a request to createServer for which startWorkload returned no error
\* is answered 202 with the instances startWorkload created, also when it
\* created none.
C20_LaunchAnswered ==
    (/\ response.handler = "createServer"
     /\ lastRequest.startWorkload
     /\ lastRequest.err = None)
        => /\ response.status = 202
           /\ response.servers = lastRequest.instances

C23_OnlyTheTenantsInstances ==
    response.handler \in {"deleteServer", "serverAction",
                          "tenantServersAction"} =>
        /\ \A k \in 1..Len(called) :
            called[k].ID \in Known =>
                GetInstance(called[k].ID).TenantID = lastRequest.tenant
        /\ response.status = 404 => called = <<>>

(***************************************************************************)
(* Claims about libsnnet                                                   *)
(***************************************************************************)

\* C21: enable, disable, destroy, attach and detach on a Vnic on which no
\* create and no getDevice has succeeded return an error and call the kernel
\* not at all; getDevice for an interface that does not exist returns an
\* error and leaves the Vnic as it was; on a Vnic created or bound, whose
\* link is there, the operations succeed when the kernel does (attach: with
\* an initialized bridge).
C21_UnboundVnicRefused ==
    /\ (lastCall.op \in VnicOps /\ ~lastCall.bound) =>
            /\ lastCall.err # None
            /\ lastCall.kernelCalls = 0
    /\ (lastCall.op = "getDevice" /\ ~lastCall.existed) =>
            /\ lastCall.err # None
            /\ vnic[lastCall.v].Link = lastCall.link
            /\ bound[lastCall.v] = lastCall.bound
    /\ (/\ lastCall.op \in VnicOps
        /\ lastCall.bound
        /\ lastCall.existed
        /\ ~lastCall.failed
        /\ lastCall.op = "attach" => lastCall.bridge)
            => lastCall.err = None

(***************************************************************************)
(* Claims about the launcher                                               *)
(***************************************************************************)

\* C25: processDetachVolume for a volume that is not attached answers
\* DetachVolumeNotAttached and changes nothing; when the save fails it
\* answers DetachVolumeDetachFailure and the attached volumes are those
\* before the call; a volume that was attached is gone from the set only
\* when the call returned nil, and then it is gone and saved so.
C25_DetachKeepsVolumesOnFailure ==
    lastDetach.volumeUUID # None =>
        /\ lastDetach.volumeUUID \notin lastDetach.before =>
                /\ lastDetach.code = DetachVolumeNotAttached
                /\ cfg.Volumes = lastDetach.before
        /\ lastDetach.err # None =>
                /\ lastDetach.code = DetachVolumeDetachFailure
                /\ cfg.Volumes = lastDetach.before
        /\ (/\ lastDetach.volumeUUID \in lastDetach.before
            /\ lastDetach.volumeUUID \notin cfg.Volumes)
                => lastDetach.code = None
        /\ lastDetach.code = None =>
                /\ cfg.Volumes = lastDetach.before \ {lastDetach.volumeUUID}
                /\ cfg.saved = cfg.Volumes

\* a save failed for an attached volume, and the volume is still attached
C25_SaveFailedVolumeStillAttached ==
    /\ lastDetach.code = DetachVolumeDetachFailure
    /\ lastDetach.volumeUUID \in lastDetach.before
    /\ lastDetach.volumeUUID \in cfg.Volumes

(***************************************************************************)
(* Claims about the pagers                                                 *)
(***************************************************************************)

\* the items of the list after the item of the marker
AfterMarker(marker) ==
    {pagers[j] : j \in {k \in DOMAIN pagers : k > IndexOf(pagers, marker)}}

\* C29: for every limit, offset and marker nextPage of the three pagers
\* returns a page or an error and never fails on a slice out of range;
\* with a marker the page has only items after the marked item, a marker of
\* no item is an error, and with a limit above 0 the page has at most limit
\* items.
C29_PageOrErrorNeverOutOfRange ==
    lastPage.kind # None =>
        /\ ~lastPage.result.panic
        /\ lastPage.query.marker # 0 =>
                IF IndexOf(pagers, lastPage.query.marker) = 0
                THEN lastPage.result.err
                ELSE /\ ~lastPage.result.err
                     /\ \A k \in DOMAIN lastPage.result.page :
                            lastPage.result.page[k] \in
                                AfterMarker(lastPage.query.marker)
        /\ lastPage.query.limit > 0 =>
                Len(lastPage.result.page) <= lastPage.query.limit

(***************************************************************************)
(* Claims about the CNCI requests                                          *)
(***************************************************************************)

\* the CNCIs of the datastore that have an instance
WithInstance == SelectSeq(cnciSummary, LAMBDA c : c.InstanceID # 0)

\* C30: in the response of listCNCIs there is one entry for every CNCI with
\* an instance ID and none for the others, and each entry carries exactly
\* the subnets of its own CNCI, as listCNCIDetails gives them for it.
C30_EachCNCIItsOwnSubnets ==
    (lastList.handler = "listCNCIs" /\ lastList.code = 200) =>
        /\ Len(lastList.CNCIs) = Len(WithInstance)
        /\ \A k \in DOMAIN lastList.CNCIs :
                lastList.CNCIs[k] =
                    CiaoCNCI(WithInstance[k], WithInstance[k].Subnets)

(***************************************************************************)
(* Claims about the waiter tables.                                         *)
(***************************************************************************)

\* some caller still holds channel c and has not returned from, or not yet
\* called, Get*ChanResult
HasReceiver(c) ==
    \E w \in Waiters :
        waiter[w].c = c /\ waiter[w].pc \in {"registered", "waiting"}

\* sender s is blocked in c <- result, holding the table's lock, and no
\* caller will ever receive from c
Stuck(s) == sender[s].pc = "send" /\ ~HasReceiver(sender[s].c)

\* the channel is the entry of some key of some table
InTables(c) ==
    \E kind \in Kinds : \E key \in Keys(kind) : chanTables[kind][key] = c

\* C3: a registered channel is taken by at most one SendResultAndDel*Chan,
\* which removes its entry before it delivers: a later call for the same key
\* finds no entry and delivers nothing.
C3_AtMostOneResult ==
    /\ \A c \in Chans : picked[c] <= 1
    /\ \A s \in Senders : sender[s].pc = "send" => ~InTables(sender[s].c)
    /\ \A c \in closed : ~InTables(c)

\* C3, witness: a waiter received its result, and a second
\* SendResultAndDel*Chan for its key, with no registration in between, found
\* no entry.
C3_SecondResolveFindsNothing ==
    \E w \in Waiters :
        /\ waiter[w].pc = "got"
        /\ waiter[w].result.from # "close"
        /\ picked[waiter[w].c] = 1
        /\ <<waiter[w].kind, waiter[w].key>> \in missed
        /\ <<waiter[w].kind, waiter[w].key>> \in resolved

\* C4: when a disconnect handler (DisconnectNotify, Shutdown) returns no
\* waiter is left blocked, and what a waiter receives from the channel the
\* handler closed is a Disconnected failure.
C4_DisconnectResolvesWaiters ==
    /\ leftBlocked = {}
    /\ \A w \in Waiters :
        (waiter[w].pc = "got" /\ waiter[w].result.from = "close") =>
            waiter[w].err = "Disconnected"

\* C5: when Get*ChanResult has returned the timeout error, the waiter's
\* channel is no longer the entry of its key.
C5_TimeoutRemovesEntry ==
    \A w \in Waiters :
        waiter[w].pc = "timedout" =>
            chanTables[waiter[w].kind][waiter[w].key] # waiter[w].c

\* C6: no SendResultAndDel*Chan is blocked for ever in its send, holding the
\* table's lock.
C6_SendResultAndDelChanReturns == \A s \in Senders : ~Stuck(s)

\* C7: after a second Add*Chan for a key the table holds the newer channel;
\* the displaced channel is never taken by a SendResultAndDel*Chan and never
\* closed, so its waiter gets no result.
C7_NewerRegistrationWins ==
    /\ \A c \in orphaned : ~InTables(c) /\ picked[c] = 0 /\ c \notin closed
    /\ \A w \in Waiters : waiter[w].c \in orphaned => waiter[w].pc # "got"

\* C7, witness: two waiters registered the same key; the newer one received
\* the result and the displaced one returned by its timeout.
C7_DisplacedTimesOut ==
    \E w1 \in Waiters, w2 \in Waiters :
        /\ waiter[w1].kind = waiter[w2].kind
        /\ waiter[w1].key = waiter[w2].key
        /\ waiter[w1].c \in orphaned
        /\ waiter[w1].pc = "timedout"
        /\ waiter[w2].pc = "got"
        /\ waiter[w2].result.from # "close"

\* C8: a SendResultAndDel*Chan for a key with no entry is never blocked for
\* ever: the lock it waits for is not held by a sender that cannot return.
C8_NoWaiterSendReturns ==
    \A s \in Senders :
        (/\ sender[s].pc = "lock"
         /\ chanTables[Head(sender[s].todo).table][Head(sender[s].todo).key]
                = NoChan) =>
            ~\E s2 \in Senders :
                Stuck(s2) /\ locks[Head(sender[s].todo).table] = s2

\* C9: a step changes at most one of the four tables, and a waiter is
\* fulfilled only by the completion of an operation of its own kind.
C9_TablesIndependent ==
    [][/\ \A k1 \in Kinds, k2 \in Kinds :
            k1 # k2 => \/ chanTables'[k1] = chanTables[k1]
                       \/ chanTables'[k2] = chanTables[k2]
       /\ \A w \in Waiters :
            (waiter'[w].pc = "got" /\ waiter[w].pc # "got") =>
                waiter'[w].result.from \in {waiter[w].kind, "close"}]_vars

\* the calls CommandNotify has still to make on flow s
Pending(s) == sender[s].todo

C27_ClosedOnceAndTablesEmpty ==
    [][/\ \A s \in Senders : sender'[s].pc = "send" => sender'[s].c \notin closed'
       /\ \A c \in closed' : ~(\E kind \in Kinds : \E key \in Keys(kind) :
                                    chanTables'[kind][key] = c)
       /\ (sender["test"].op = "Shutdown" /\ sender'["test"].pc = "idle") =>
            \A kind \in Kinds : \A key \in Keys(kind) :
                chanTables'[kind][key] = NoChan]_vars

====
